---- MODULE Spec2Model ----
(***************************************************************************)
(* Model of the chain executor state machine of the L10 agentic chain:     *)
(* ChainExecutor (chain/runner/executor.py), ChainContext                  *)
(* (core/schemas/chain.py), StepResult / ChainResult                       *)
(* (core/schemas/results.py) and the Step contract (chain/steps/base.py,   *)
(* chain/steps/stub_step.py).                                              *)
(***************************************************************************)
EXTENDS Naturals, Sequences, FiniteSets, TLC

\* ------------------------------------------------------------------------
\* Bounds of the model
\* ------------------------------------------------------------------------

\* Longest step list handed to the ChainExecutor constructor.
MaxSteps == 3

\* The longest step list of an executor that is called several times, and
\* the number of calls.
MaxCallSteps == 2
MaxCalls == 2

\* The longest step list of an executor that is called concurrently.
MaxConcSteps == 2

\* The number of calls of score() made on the concrete steps.
MaxScoreCalls == 1
MaxRescores == 1
MaxParseCalls == 1
MaxCiteCalls == 1
MaxCitations == 2

\* The strings handed to canonicalize_cite: every string up to MaxCanonLen
\* characters, citations with numbers of up to MaxDigits digits, and the
\* number of times the function is applied in a row.
MaxCanonLen == 4
MaxDigits == 2
MaxCanonCalls == 2

\* The number of calls of case_id() and pair_id().
MaxIdCalls == 2

\* The number of calls made on one S7CitationIntegrity object, its
\* construction included.
MaxS7Calls == 2

\* The longest SCDB table and overruled table handed to the DatasetBuilder.
MaxScdbRows == 2
MaxOverruledRows == 1

\* The number of calls made directly on StepResult and ChainContext.
MaxApiCalls == 2

\* The longest step list of the runs checked for termination.
MaxFairSteps == 2

\* The longest step list of the runs whose dependency chains are checked.
MaxDepSteps == 3

\* ------------------------------------------------------------------------
\* Constants of the program
\* ------------------------------------------------------------------------

STATUS_OK == "OK"
STATUS_SKIPPED_COVERAGE == "SKIPPED_COVERAGE"
STATUS_SKIPPED_DEPENDENCY == "SKIPPED_DEPENDENCY"

VALID_STATUSES == {STATUS_OK, STATUS_SKIPPED_COVERAGE, STATUS_SKIPPED_DEPENDENCY}

\* The diagnostic string written by the gate (both on the target result and
\* on the outcome).
VOID_REASON == "S7 citation integrity gate failed"

\* Python's None.
None == "None"

\* Default gate id and target id of the ChainExecutor constructor.
DEFAULT_S7_STEP_ID == "s7"
DEFAULT_S6_STEP_ID == "s6"

\* ------------------------------------------------------------------------
\* Inputs: the steps a caller may configure
\* ------------------------------------------------------------------------

\* (name, variant) pairs of the configured steps; variant "" is "no variant".
StepIdents ==
    { <<"s6", "">>, <<"s6", "a">>, <<"s6", "b">>, <<"s7", "">> }

\* The sets a step may return from requires().
RequireSets ==
    { {}, {"s6"}, {"s6:b"}, {"nonexistent", "s6"} }

\* A configured step: StubStep(name, variant, requires).  No configured step
\* lists its own id among its requirements.
StepConfigs ==
    { c \in { [name |-> nv[1], variant |-> nv[2], requires |-> r] :
                 nv \in StepIdents, r \in RequireSets } :
        (IF c.variant # "" THEN c.name \o ":" \o c.variant ELSE c.name)
            \notin c.requires }

\* Outcomes of step.score(parsed, ground_truth): <<score, correct>>, where
\* 0 stands for the score 0.0 and 1 for the score 1.0.
ScoreOutcomes == { <<1, TRUE>>, <<0, FALSE>> }

\* Every string that occurs as a step id, in Python's string order (the
\* order sorted() uses).
IdOrder ==
    << "nonexistent", "s1", "s2", "s3", "s4", "s5:cb", "s5:rag", "s6", "s6:a",
       "s6:b", "s7" >>

\* ------------------------------------------------------------------------
\* The Step contract
\* ------------------------------------------------------------------------

\* StubStep.step_id: name:variant when the variant is truthy, else the name.
step_id(step) ==
    IF step.variant # "" THEN step.name \o ":" \o step.variant ELSE step.name

\* StubStep.step_name
step_name(step) == step.name

\* Step._extract_variant: the part of step_id after the first ":", or None.
\* (No configured name holds a ":", so that part is the variant.)
_extract_variant(step) ==
    IF step.variant # "" THEN step.variant ELSE None

\* StubStep.requires
requires(step) == step.requires

\* ------------------------------------------------------------------------
\* StepResult
\* ------------------------------------------------------------------------

\* Variant of __post_init__: the status is not validated.
__post_init___unchecked(status) == FALSE

\* StepResult.__post_init__: whether the construction of a StepResult with
\* the given status raises ValueError.
__post_init__(status) == status \notin VALID_STATUSES

\* The status arguments handed to the StepResult constructor: the valid
\* ones and some that are not, among them a valid one in lower case.
StatusInputs == VALID_STATUSES \cup { "INVALID", "ok", "" }

\* The StepResult constructor with the dataclass defaults for the fields the
\* executor does not pass (voided = False, void_reason = None).
StepResult(sid, sname, variant, status, score, correct, model_errors) ==
    [ step_id      |-> sid,
      step         |-> sname,
      variant      |-> variant,
      status       |-> status,
      score        |-> score,
      correct      |-> correct,
      voided       |-> FALSE,
      void_reason  |-> None,
      model_errors |-> model_errors ]

\* Step.create_result: status is left at its default, OK.
create_result(step, score, correct) ==
    StepResult(step_id(step), step_name(step), _extract_variant(step),
               STATUS_OK, score, correct, << >>)

\* sorted(S) for a set of step ids: the ids of S in Python's string order.
sorted(S) == SelectSeq(IdOrder, LAMBDA x : x \in S)

\* ------------------------------------------------------------------------
\* ChainContext
\* ------------------------------------------------------------------------

\* ChainContext.get(step_id) is not None: a result is stored under the id.
\* (Where it is, ChainContext.get returns results[sid].)
ctx_has(results, sid) == sid \in DOMAIN results

\* ChainContext.set on the mapping: step_results[step_id] = result.
ctx_set(results, sid, result) ==
    [ k \in (DOMAIN results) \cup {sid} |->
        IF k = sid THEN result ELSE results[k] ]

\* Variant of ctx_set_order: a key that is set again moves to the end.
ctx_set_order_move_to_end(order, results, sid) ==
    Append(SelectSeq(order, LAMBDA k : k # sid), sid)

\* ChainContext.set on the key order of the dict: a new key goes last, an
\* existing key keeps its place.
ctx_set_order(order, results, sid) ==
    IF sid \in DOMAIN results THEN order ELSE Append(order, sid)

\* Variant of has_step: only a result with status OK counts.
has_step_ok_only(results, name) ==
    \E d \in DOMAIN results :
        results[d].step = name /\ results[d].status = STATUS_OK

\* ChainContext.has_step: any(sr.step == step_name for sr in
\* self.step_results.values()).
has_step(results, name) == \E d \in DOMAIN results : results[d].step = name

\* Variant of get_ok_step_ids: only results that are OK and correct count.
get_ok_step_ids_correct_only(results) ==
    { sid \in DOMAIN results :
        results[sid].status = STATUS_OK /\ results[sid].correct }

\* Variant of get_ok_step_ids: every recorded result counts.
get_ok_step_ids_any_status(results) == DOMAIN results

\* Variant of get_ok_step_ids: a voided result does not count.
get_ok_step_ids_not_voided(results) ==
    { sid \in DOMAIN results :
        results[sid].status = STATUS_OK /\ ~results[sid].voided }

\* ChainContext.get_ok_step_ids
get_ok_step_ids(results) ==
    { sid \in DOMAIN results : results[sid].status = STATUS_OK }

\* ------------------------------------------------------------------------
\* Strings and canonical citations
\* ------------------------------------------------------------------------

\* A Python str is modelled as the sequence of its characters.

\* s[i:]: the string from its (i+1)-th character on.
str_from(s, i) == SubSeq(s, i + 1, Len(s))

\* s.startswith(prefix).
startswith(s, prefix) ==
    Len(prefix) <= Len(s) /\ SubSeq(s, 1, Len(prefix)) = prefix

\* s.replace(old, new) for a non-empty old: the occurrences of old, found
\* from the left and not overlapping, are replaced by new.
RECURSIVE str_replace(_, _, _)
str_replace(s, old, new) ==
    IF s = << >>
    THEN << >>
    ELSE IF startswith(s, old)
    THEN new \o str_replace(str_from(s, Len(old)), old, new)
    ELSE << s[1] >> \o str_replace(str_from(s, 1), old, new)

UpperLetters == << "A", "B", "C", "D", "E", "F", "G", "H", "I", "J", "K", "L",
                   "M", "N", "O", "P", "Q", "R", "S", "T", "U", "V", "W", "X",
                   "Y", "Z" >>
LowerLetters == << "a", "b", "c", "d", "e", "f", "g", "h", "i", "j", "k", "l",
                   "m", "n", "o", "p", "q", "r", "s", "t", "u", "v", "w", "x",
                   "y", "z" >>

\* s.lower().
lower(s) ==
    [ i \in DOMAIN s |->
        IF \E j \in DOMAIN UpperLetters : UpperLetters[j] = s[i]
        THEN LowerLetters[CHOOSE j \in DOMAIN UpperLetters :
                              UpperLetters[j] = s[i]]
        ELSE s[i] ]

\* s.strip(): the string without its leading and trailing blanks.
RECURSIVE strip(_)
strip(s) ==
    IF s = << >> THEN << >>
    ELSE IF s[1] = " " THEN strip(str_from(s, 1))
    ELSE IF s[Len(s)] = " " THEN strip(SubSeq(s, 1, Len(s) - 1))
    ELSE s

\* canonicalize_cite without the normalisation of the spaced reporter.
canonicalize_cite_unnormalized(cite) ==
    lower(str_replace(str_replace(cite, << " " >>, << "_" >>),
                      << "." >>, << >>))

\* canonicalize_cite without the final lower().
canonicalize_cite_keeps_case(cite) ==
    LET normalized ==
            str_replace(str_replace(cite, << "U", ".", " ", "S", "." >>, << "U", ".", "S", "." >>), << "u", ".", " ", "s", "." >>, << "u", ".", "s", "." >>)
    IN  str_replace(str_replace(normalized, << " " >>, << "_" >>),
                    << "." >>, << >>)

\* canonicalize_cite with the periods turned into blanks.
canonicalize_cite_periods_to_blanks(cite) ==
    LET normalized ==
            str_replace(str_replace(cite, << "U", ".", " ", "S", "." >>, << "U", ".", "S", "." >>), << "u", ".", " ", "s", "." >>, << "u", ".", "s", "." >>)
    IN  lower(str_replace(str_replace(normalized, << " " >>, << "_" >>),
                          << "." >>, << " " >>))

\* canonicalize_cite(cite).
canonicalize_cite(cite) ==
    LET normalized ==
            str_replace(str_replace(cite, << "U", ".", " ", "S", "." >>, << "U", ".", "S", "." >>), << "u", ".", " ", "s", "." >>, << "u", ".", "s", "." >>)
    IN  lower(str_replace(str_replace(normalized, << " " >>, << "_" >>),
                          << "." >>, << >>))

\* Citations handed to the steps: one in compact and in spaced form, and
\* another one.
Cite347 == << "3", "4", "7", " ", "U", ".", "S", ".", " ", "4", "8", "3" >>
Cite347Spaced == << "3", "4", "7", " ", "U", ".", " ", "S", ".", " ", "4", "8", "3" >>
Cite410 == << "4", "1", "0", " ", "U", ".", "S", ".", " ", "1", "1", "3" >>

\* ------------------------------------------------------------------------
\* The concrete steps: score
\* ------------------------------------------------------------------------

\* A Python dict is modelled as a function on its keys.
EmptyDict == << >>

\* d.get(key, default).
dict_get(d, key, default) == IF key \in DOMAIN d THEN d[key] ELSE default

\* d[key] = value.
dict_set(d, key, value) ==
    [ k \in (DOMAIN d) \cup { key } |-> IF k = key THEN value ELSE d[k] ]

\* Scores are fractions << numerator, denominator >> in lowest terms.
Zero == << 0, 1 >>
Half == << 1, 2 >>
One == << 1, 1 >>

\* S1KnownAuthority.score.  (pred_term == true_term and pred_term is not
\* None, for terms that are integers where present.)
S1KnownAuthority_score(parsed, ground_truth) ==
    IF "errors" \in DOMAIN parsed
    THEN << Zero, FALSE >>
    ELSE LET pred_cite  == canonicalize_cite(dict_get(parsed, "us_cite", << >>))
             true_cite  == canonicalize_cite(
                               dict_get(ground_truth, "us_cite", << >>))
             cite_match == pred_cite = true_cite /\ pred_cite # << >>
             term_match == /\ "term" \in DOMAIN parsed
                           /\ "term" \in DOMAIN ground_truth
                           /\ parsed["term"] = ground_truth["term"]
         IN  IF cite_match /\ term_match THEN << One, TRUE >>
             ELSE IF cite_match \/ term_match THEN << Half, FALSE >>
             ELSE << Zero, FALSE >>

\* The rank loop of S2UnknownAuthority.score: the 1-indexed position of the
\* first prediction whose canonical citation is the true one; 0 stands for
\* rank = None.
S2_rank(citing_cases, true_canonical) ==
    LET hits == { i \in DOMAIN citing_cases :
                    canonicalize_cite(
                        dict_get(citing_cases[i], "us_cite", << >>))
                      = true_canonical }
    IN  IF hits = {} THEN 0
        ELSE CHOOSE i \in hits : \A j \in hits : i <= j

\* S2UnknownAuthority.score, the value returned: (mrr, hit_at_10).
S2UnknownAuthority_score(parsed, ground_truth) ==
    IF "errors" \in DOMAIN parsed
    THEN << Zero, FALSE >>
    ELSE LET citing_cases == dict_get(parsed, "citing_cases", << >>)
             true_cite    == dict_get(ground_truth, "citing_case_us_cite",
                                      << >>)
             rank         == S2_rank(citing_cases, canonicalize_cite(true_cite))
         IN  IF true_cite = << >> THEN << Zero, FALSE >>
             ELSE IF rank = 0 THEN << Zero, FALSE >>
             ELSE << << 1, rank >>, rank <= 10 >>

\* S2UnknownAuthority.score, had it stored the extended metrics next to the
\* other keys of the payload instead of under one "metrics" key.
S2UnknownAuthority_score_parsed_flat(parsed, ground_truth) ==
    LET citing_cases == dict_get(parsed, "citing_cases", << >>)
        true_cite    == dict_get(ground_truth, "citing_case_us_cite", << >>)
        rank         == S2_rank(citing_cases, canonicalize_cite(true_cite))
    IN  IF "errors" \in DOMAIN parsed \/ true_cite = << >>
        THEN parsed
        ELSE dict_set(dict_set(parsed, "mrr",
                          IF rank = 0 THEN Zero ELSE << 1, rank >>),
                      "hit_at_10", rank # 0 /\ rank <= 10)

\* S2UnknownAuthority.score, its effect on the payload: the extended
\* metrics are stored under "metrics".
S2UnknownAuthority_score_parsed(parsed, ground_truth) ==
    LET citing_cases == dict_get(parsed, "citing_cases", << >>)
        true_cite    == dict_get(ground_truth, "citing_case_us_cite", << >>)
        rank         == S2_rank(citing_cases, canonicalize_cite(true_cite))
    IN  IF "errors" \in DOMAIN parsed \/ true_cite = << >>
        THEN parsed
        ELSE dict_set(parsed, "metrics",
                 [ rank      |-> IF rank = 0 THEN None ELSE rank,
                   mrr       |-> IF rank = 0 THEN Zero ELSE << 1, rank >>,
                   hit_at_1  |-> rank # 0 /\ rank <= 1,
                   hit_at_5  |-> rank # 0 /\ rank <= 5,
                   hit_at_10 |-> rank # 0 /\ rank <= 10,
                   hit_at_20 |-> rank # 0 /\ rank <= 20 ])

\* S3ValidateAuthority.score.
S3ValidateAuthority_score(parsed, ground_truth) ==
    IF "errors" \in DOMAIN parsed
    THEN << Zero, FALSE >>
    ELSE IF dict_get(parsed, "is_overruled", FALSE)
              = dict_get(ground_truth, "is_overruled", FALSE)
    THEN << One, TRUE >>
    ELSE << Zero, FALSE >>

\* S4FactExtraction.score, for ground truths whose values are strings.
S4FactExtraction_score(parsed, ground_truth) ==
    IF "errors" \in DOMAIN parsed
    THEN << Zero, FALSE >>
    ELSE LET pred_disposition  == dict_get(parsed, "disposition", << >>)
             pred_party        == dict_get(parsed, "party_winning", << >>)
             true_disposition  == dict_get(ground_truth, "disposition", << >>)
             true_party        == dict_get(ground_truth, "party_winning", << >>)
             disposition_match == pred_disposition = lower(true_disposition)
             party_match       == pred_party = lower(true_party)
         IN  IF disposition_match /\ party_match THEN << One, TRUE >>
             ELSE IF disposition_match \/ party_match THEN << Half, FALSE >>
             ELSE << Zero, FALSE >>

\* _score_s5, the score of both S5 variants.
_score_s5(parsed, ground_truth) ==
    IF "errors" \in DOMAIN parsed
    THEN << Zero, FALSE >>
    ELSE IF dict_get(parsed, "agrees", FALSE)
              = dict_get(ground_truth, "agrees", FALSE)
    THEN << One, TRUE >>
    ELSE << Zero, FALSE >>

\* The IRAC components S6 scores and the sums of their quarters.
Components == { "issue", "rule", "application", "conclusion" }
Quarters == << << 1, 4 >>, Half, << 3, 4 >>, One >>

\* S6IRACSynthesis.score, for components that are strings: a component
\* counts when it has more than 10 characters after strip().
S6IRACSynthesis_score(parsed, ground_truth) ==
    IF "errors" \in DOMAIN parsed
    THEN << Zero, FALSE >>
    ELSE LET present == Cardinality({ c \in Components :
                            Len(strip(dict_get(parsed, c, << >>))) > 10 })
         IN  << IF present = 0 THEN Zero ELSE Quarters[present],
                present >= 3 >>

\* S7CitationIntegrity.score.
S7CitationIntegrity_score(parsed, ground_truth) ==
    IF dict_get(parsed, "all_valid", FALSE)
    THEN << One, TRUE >>
    ELSE << Zero, FALSE >>

\* Strings handed to S4 and S6.
Affirmed == << "a", "f", "f", "i", "r", "m", "e", "d" >>
Reversed == << "r", "e", "v", "e", "r", "s", "e", "d" >>
ReversedCapital == << "R", "e", "v", "e", "r", "s", "e", "d" >>
Petitioner == << "p", "e", "t", "i", "t", "i", "o", "n", "e", "r" >>
Respondent == << "r", "e", "s", "p", "o", "n", "d", "e", "n", "t" >>
LongText == << "w", "h", "e", "t", "h", "e", "r", " ", "v", "o", "i", "d" >>
ShortPaddedText == << " ", " ", "t", "o", "o", " ", "s", "h", "o", "r", "t", " " >>

\* A payload with or without the "errors" key of a parse failure (the
\* message is kept as one token).
with_errors(parsed, has_errors) ==
    IF has_errors
    THEN dict_set(parsed, "errors", << "JSON parse error" >>)
    ELSE parsed

\* A dict with the key bound to values[choice], or without it for choice 0.
optional(key, choice, values) ==
    IF choice = 0 THEN EmptyDict ELSE key :> values[choice]

\* ------------------------------------------------------------------------
\* The concrete steps: parse
\* ------------------------------------------------------------------------

\* A value json.loads returns, and a value of a parsed payload, is a record
\* of its Python type t and its content v.  The floats of the responses
\* below are the non-finite ones, named by a string.
JNull == [ t |-> "NoneType", v |-> 0 ]
JBool(b) == [ t |-> "bool", v |-> b ]
JInt(n) == [ t |-> "int", v |-> n ]
JFloat(x) == [ t |-> "float", v |-> x ]
JStr(s) == [ t |-> "str", v |-> s ]
JList(l) == [ t |-> "list", v |-> l ]
JDict(d) == [ t |-> "dict", v |-> d ]

\* The truth value of x in "if x" and bool(x).
truthy(x) ==
    CASE x.t = "NoneType" -> FALSE
      [] x.t = "bool"     -> x.v
      [] x.t = "int"      -> x.v # 0
      [] x.t = "float"    -> TRUE
      [] x.t = "str"      -> Len(x.v) > 0
      [] x.t = "list"     -> Len(x.v) > 0
      [] x.t = "dict"     -> DOMAIN x.v # {}

\* str(x), for the strings among the values.
py_str(x) == CASE x.t = "str" -> x.v

\* str(x) if x else "".
str_or_empty(x) == IF truthy(x) THEN JStr(py_str(x)) ELSE JStr(<< >>)

Digits == << "0", "1", "2", "3", "4", "5", "6", "7", "8", "9" >>

\* The number a string of digits denotes.
RECURSIVE digits_value(_)
digits_value(s) ==
    IF s = << >> THEN 0
    ELSE 10 * digits_value(SubSeq(s, 1, Len(s) - 1))
         + (CHOOSE d \in 0..9 : Digits[d + 1] = s[Len(s)])

\* int(x): the exception it raises ("None" for none) and the number it
\* returns.  A string converts when it is a non-empty string of digits
\* (signs, blanks and underscores do not occur in the responses below).
py_int(x) ==
    CASE x.t = "int"   -> [ raised |-> "None", value |-> x.v ]
      [] x.t = "bool"  -> [ raised |-> "None",
                            value |-> IF x.v THEN 1 ELSE 0 ]
      [] x.t = "float" -> [ raised |-> IF x.v = "nan" THEN "ValueError"
                                       ELSE "OverflowError",
                            value |-> 0 ]
      [] x.t = "str"   ->
            IF /\ x.v # << >>
               /\ \A i \in DOMAIN x.v : \E d \in DOMAIN Digits :
                      Digits[d] = x.v[i]
            THEN [ raised |-> "None", value |-> digits_value(x.v) ]
            ELSE [ raised |-> "ValueError", value |-> 0 ]
      [] OTHER         -> [ raised |-> "TypeError", value |-> 0 ]

\* The normalisation of S1 and S3: None stays None, int(x) otherwise, and
\* None when int(x) raises ValueError or TypeError; any other exception
\* leaves the try statement.
int_or_none(x) ==
    IF x.t = "NoneType" THEN [ raised |-> "None", value |-> JNull ]
    ELSE LET n == py_int(x)
         IN  IF n.raised = "None"
             THEN [ raised |-> "None", value |-> JInt(n.value) ]
             ELSE IF n.raised \in { "ValueError", "TypeError" }
             THEN [ raised |-> "None", value |-> JNull ]
             ELSE [ raised |-> n.raised, value |-> JNull ]

\* The grave accent, the character of a markdown code fence (a TLA+ string
\* cannot hold it, so it is the one character with a name).
Backtick == "GRAVE"

\* Responses of a backend, as the text handed to parse().

\* "not json"
RawNotJson ==
    << "n", "o", "t", " ", "j", "s", "o", "n" >>

\* ""
RawEmptyText ==
    << >>

\* "{\"term\": 19"
RawTruncated ==
    << "{", "\"", "t", "e", "r", "m", "\"", ":", " ", "1", "9" >>

\* "[1]"
RawJsonList ==
    << "[", "1", "]" >>

\* "{}"
RawEmptyObject ==
    << "{", "}" >>

\* " {} "
RawPaddedObject ==
    << " ", "{", "}", " " >>

\* A code fence, "json", a line break, "{}", a line break, a code fence.
RawFencedObject ==
    << Backtick, Backtick, Backtick, "j", "s", "o", "n", "\n", "{", "}",
       "\n", Backtick, Backtick, Backtick >>

\* "{\"us_cite\": \"1 U.S. 1\", \"term\": 1954}"
RawS1Text ==
    << "{", "\"", "u", "s", "_", "c", "i", "t", "e", "\"", ":", " ",
       "\"", "1", " ", "U", ".", "S", ".", " ", "1", "\"", ",", " ",
       "\"", "t", "e", "r", "m", "\"", ":", " ", "1", "9", "5", "4",
       "}" >>

\* "{\"term\": 1e999}"
RawS1TermHuge ==
    << "{", "\"", "t", "e", "r", "m", "\"", ":", " ", "1", "e", "9",
       "9", "9", "}" >>

\* "{\"term\": \"x\"}"
RawS1TermWord ==
    << "{", "\"", "t", "e", "r", "m", "\"", ":", " ", "\"", "x",
       "\"", "}" >>

\* "{\"citing_cases\": [{\"us_cite\": \"1 U.S. 1\"}, 7]}"
RawS2Text ==
    << "{", "\"", "c", "i", "t", "i", "n", "g", "_", "c", "a", "s",
       "e", "s", "\"", ":", " ", "[", "{", "\"", "u", "s", "_", "c",
       "i", "t", "e", "\"", ":", " ", "\"", "1", " ", "U", ".", "S",
       ".", " ", "1", "\"", "}", ",", " ", "7", "]", "}" >>

\* "{\"citing_cases\": 7}"
RawS2NotList ==
    << "{", "\"", "c", "i", "t", "i", "n", "g", "_", "c", "a", "s",
       "e", "s", "\"", ":", " ", "7", "}" >>

\* "{\"is_overruled\": \"Yes\", \"year_overruled\": 1937}"
RawS3Text ==
    << "{", "\"", "i", "s", "_", "o", "v", "e", "r", "r", "u", "l",
       "e", "d", "\"", ":", " ", "\"", "Y", "e", "s", "\"", ",", " ",
       "\"", "y", "e", "a", "r", "_", "o", "v", "e", "r", "r", "u",
       "l", "e", "d", "\"", ":", " ", "1", "9", "3", "7", "}" >>

\* "{\"year_overruled\": 1e999}"
RawS3YearHuge ==
    << "{", "\"", "y", "e", "a", "r", "_", "o", "v", "e", "r", "r",
       "u", "l", "e", "d", "\"", ":", " ", "1", "e", "9", "9", "9",
       "}" >>

\* "{\"disposition\": \" Reversed\", \"party_winning\": 1}"
RawS4Text ==
    << "{", "\"", "d", "i", "s", "p", "o", "s", "i", "t", "i", "o",
       "n", "\"", ":", " ", "\"", " ", "R", "e", "v", "e", "r", "s",
       "e", "d", "\"", ",", " ", "\"", "p", "a", "r", "t", "y", "_",
       "w", "i", "n", "n", "i", "n", "g", "\"", ":", " ", "1", "}" >>

\* "{\"agrees\": true}"
RawS5Text ==
    << "{", "\"", "a", "g", "r", "e", "e", "s", "\"", ":", " ", "t",
       "r", "u", "e", "}" >>

\* "{\"agrees\": \"no\"}"
RawS5Word ==
    << "{", "\"", "a", "g", "r", "e", "e", "s", "\"", ":", " ", "\"",
       "n", "o", "\"", "}" >>

\* "{\"issue\": \"x\", \"rule\": \"\"}"
RawS6Text ==
    << "{", "\"", "i", "s", "s", "u", "e", "\"", ":", " ", "\"", "x",
       "\"", ",", " ", "\"", "r", "u", "l", "e", "\"", ":", " ",
       "\"", "\"", "}" >>

\* "{\"citations_found\": [], \"all_valid\": false}"
RawS7Text ==
    << "{", "\"", "c", "i", "t", "a", "t", "i", "o", "n", "s", "_",
       "f", "o", "u", "n", "d", "\"", ":", " ", "[", "]", ",", " ",
       "\"", "a", "l", "l", "_", "v", "a", "l", "i", "d", "\"", ":",
       " ", "f", "a", "l", "s", "e", "}" >>

\* Strings inside the responses.
Cite1 == << "1", " ", "U", ".", "S", ".", " ", "1" >>
WordYes == << "Y", "e", "s" >>
WordNo == << "n", "o" >>
PaddedReversed == << " ", "R", "e", "v", "e", "r", "s", "e", "d" >>

\* The responses that are JSON documents, with the value json.loads
\* returns for each (1e999 is read as float("inf")).
JsonDocuments ==
    << [ text  |-> RawJsonList, value |-> JList(<< JInt(1) >>) ],
       [ text  |-> RawEmptyObject, value |-> JDict(EmptyDict) ],
       [ text  |-> RawS1Text,
         value |-> JDict(("us_cite" :> JStr(Cite1))
                         @@ ("term" :> JInt(1954))) ],
       [ text  |-> RawS1TermHuge, value |-> JDict("term" :> JFloat("inf")) ],
       [ text  |-> RawS1TermWord, value |-> JDict("term" :> JStr(<< "x" >>)) ],
       [ text  |-> RawS2Text,
         value |-> JDict("citing_cases" :>
                       JList(<< JDict("us_cite" :> JStr(Cite1)),
                                JInt(7) >>)) ],
       [ text  |-> RawS2NotList, value |-> JDict("citing_cases" :> JInt(7)) ],
       [ text  |-> RawS3Text,
         value |-> JDict(("is_overruled" :> JStr(WordYes))
                         @@ ("year_overruled" :> JInt(1937))) ],
       [ text  |-> RawS3YearHuge,
         value |-> JDict("year_overruled" :> JFloat("inf")) ],
       [ text  |-> RawS4Text,
         value |-> JDict(("disposition" :> JStr(PaddedReversed))
                         @@ ("party_winning" :> JInt(1))) ],
       [ text  |-> RawS5Text, value |-> JDict("agrees" :> JBool(TRUE)) ],
       [ text  |-> RawS5Word, value |-> JDict("agrees" :> JStr(WordNo)) ],
       [ text  |-> RawS6Text,
         value |-> JDict(("issue" :> JStr(<< "x" >>))
                         @@ ("rule" :> JStr(<< >>))) ],
       [ text  |-> RawS7Text,
         value |-> JDict(("citations_found" :> JList(<< >>))
                         @@ ("all_valid" :> JBool(FALSE))) ] >>

\* json.loads(s): the exception it raises ("None" for none) and the value
\* it returns; blanks around the document are ignored.
json_loads(s) ==
    LET hits == { k \in DOMAIN JsonDocuments :
                    JsonDocuments[k].text = strip(s) }
    IN  IF hits = {}
        THEN [ raised |-> "JSONDecodeError", value |-> JNull ]
        ELSE [ raised |-> "None",
               value  |-> JsonDocuments[CHOOSE k \in hits : TRUE].value ]

\* s.split(sep) for a separator of one character.
RECURSIVE split(_, _)
split(s, sep) ==
    LET at == { i \in DOMAIN s : s[i] = sep }
    IN  IF at = {} THEN << s >>
        ELSE LET i == CHOOSE i \in at : \A j \in at : i <= j
             IN  << SubSeq(s, 1, i - 1) >> \o split(str_from(s, i), sep)

\* sep.join(lines).
RECURSIVE join(_, _)
join(lines, sep) ==
    IF lines = << >> THEN << >>
    ELSE IF Len(lines) = 1 THEN lines[1]
    ELSE lines[1] \o sep \o join(Tail(lines), sep)

Fence == << Backtick, Backtick, Backtick >>

\* The loop over the lines of a response that starts with a code fence:
\* the lines between the first fence and the next one.
RECURSIVE json_lines(_, _)
json_lines(lines, in_block) ==
    IF lines = << >> THEN << >>
    ELSE IF startswith(lines[1], Fence) /\ ~in_block
    THEN json_lines(Tail(lines), TRUE)
    ELSE IF startswith(lines[1], Fence) /\ in_block
    THEN << >>
    ELSE IF in_block
    THEN << lines[1] >> \o json_lines(Tail(lines), TRUE)
    ELSE json_lines(Tail(lines), FALSE)

\* The first lines of the parse() of S1 to S6: the response stripped, taken
\* out of its markdown code block, and loaded.
load_response(raw_response) ==
    LET response == strip(raw_response)
    IN  json_loads(IF startswith(response, Fence)
                   THEN join(json_lines(split(response, "\n"), FALSE),
                             << "\n" >>)
                   ELSE response)

\* What a parse() call does: it returns a payload or leaves with an
\* exception.
Returns(payload) == [ raised |-> "None", ret |-> payload ]
Raises(exception) == [ raised |-> exception, ret |-> EmptyDict ]

\* The two payloads of a parse failure (each message is kept as one token).
JsonParseError == "errors" :> << "JSON parse error" >>
NotAJsonObject == "errors" :> << "Response is not a JSON object" >>

\* x.lower() in ("true", "yes", "1").
says_yes(s) ==
    lower(s) \in { << "t", "r", "u", "e" >>, << "y", "e", "s" >>, << "1" >> }

\* S1KnownAuthority.parse.
S1KnownAuthority_parse(raw_response) ==
    LET loaded == load_response(raw_response)
    IN  IF loaded.raised # "None" THEN Returns(JsonParseError)
        ELSE IF loaded.value.t # "dict" THEN Returns(NotAJsonObject)
        ELSE LET data      == loaded.value.v
                 us_cite   == dict_get(data, "us_cite", JStr(<< >>))
                 case_name == dict_get(data, "case_name", JStr(<< >>))
                 term      == int_or_none(dict_get(data, "term", JNull))
             IN  IF term.raised # "None" THEN Raises(term.raised)
                 ELSE Returns(("us_cite" :> str_or_empty(us_cite))
                              @@ ("case_name" :> str_or_empty(case_name))
                              @@ ("term" :> term.value))

\* The loop of S2UnknownAuthority.parse that normalises the citing cases.
RECURSIVE normalized(_)
normalized(citing_cases) ==
    IF citing_cases = << >> THEN << >>
    ELSE LET case == citing_cases[1]
             rest == normalized(Tail(citing_cases))
         IN  IF case.t # "dict" THEN rest
             ELSE LET us_cite   == dict_get(case.v, "us_cite", JStr(<< >>))
                      case_name == dict_get(case.v, "case_name", JStr(<< >>))
                  IN  IF truthy(us_cite)
                      THEN << JDict(("us_cite" :> JStr(py_str(us_cite)))
                                    @@ ("case_name" :>
                                            str_or_empty(case_name))) >>
                           \o rest
                      ELSE rest

\* S2UnknownAuthority.parse.
S2UnknownAuthority_parse(raw_response) ==
    LET loaded == load_response(raw_response)
    IN  IF loaded.raised # "None" THEN Returns(JsonParseError)
        ELSE IF loaded.value.t # "dict" THEN Returns(NotAJsonObject)
        ELSE LET citing_cases ==
                     dict_get(loaded.value.v, "citing_cases", JList(<< >>))
             IN  Returns("citing_cases" :>
                     JList(IF citing_cases.t # "list" THEN << >>
                           ELSE normalized(citing_cases.v)))

\* The normalisation of S3 and S5 to bool.
to_bool(x) == IF x.t = "str" THEN JBool(says_yes(x.v)) ELSE JBool(truthy(x))

\* S3ValidateAuthority.parse.
S3ValidateAuthority_parse(raw_response) ==
    LET loaded == load_response(raw_response)
    IN  IF loaded.raised # "None" THEN Returns(JsonParseError)
        ELSE IF loaded.value.t # "dict" THEN Returns(NotAJsonObject)
        ELSE LET data            == loaded.value.v
                 is_overruled    == dict_get(data, "is_overruled",
                                             JBool(FALSE))
                 overruling_case == dict_get(data, "overruling_case", JNull)
                 year_overruled  ==
                     int_or_none(dict_get(data, "year_overruled", JNull))
             IN  IF year_overruled.raised # "None"
                 THEN Raises(year_overruled.raised)
                 ELSE Returns(
                        ("is_overruled" :> to_bool(is_overruled))
                        @@ ("overruling_case" :>
                                IF truthy(overruling_case)
                                THEN JStr(py_str(overruling_case))
                                ELSE JNull)
                        @@ ("year_overruled" :> year_overruled.value))

\* The normalisation of S4: x.lower().strip() for a string.
lower_strip(x) == IF x.t = "str" THEN JStr(strip(lower(x.v))) ELSE x

\* S4FactExtraction.parse.
S4FactExtraction_parse(raw_response) ==
    LET loaded == load_response(raw_response)
    IN  IF loaded.raised # "None" THEN Returns(JsonParseError)
        ELSE IF loaded.value.t # "dict" THEN Returns(NotAJsonObject)
        ELSE LET data            == loaded.value.v
                 disposition     == dict_get(data, "disposition", JStr(<< >>))
                 party_winning   == dict_get(data, "party_winning",
                                             JStr(<< >>))
                 holding_summary == dict_get(data, "holding_summary",
                                             JStr(<< >>))
             IN  Returns(("disposition" :> lower_strip(disposition))
                         @@ ("party_winning" :> lower_strip(party_winning))
                         @@ ("holding_summary" :>
                                 str_or_empty(holding_summary)))

\* _parse_s5_response, the parse() of both S5 variants.
_parse_s5_response(raw_response) ==
    LET loaded == load_response(raw_response)
    IN  IF loaded.raised # "None" THEN Returns(JsonParseError)
        ELSE IF loaded.value.t # "dict" THEN Returns(NotAJsonObject)
        ELSE LET data      == loaded.value.v
                 agrees    == dict_get(data, "agrees", JNull)
                 reasoning == dict_get(data, "reasoning", JStr(<< >>))
             IN  Returns(("agrees" :> to_bool(agrees))
                         @@ ("reasoning" :> str_or_empty(reasoning)))

\* S6IRACSynthesis.parse.
S6IRACSynthesis_parse(raw_response) ==
    LET loaded == load_response(raw_response)
    IN  IF loaded.raised # "None" THEN Returns(JsonParseError)
        ELSE IF loaded.value.t # "dict" THEN Returns(NotAJsonObject)
        ELSE LET data == loaded.value.v
             IN  Returns([ c \in Components |->
                             str_or_empty(dict_get(data, c, JStr(<< >>))) ])

\* S7CitationIntegrity.parse: a response that is a JSON object with the
\* key "citations_found" is returned as it is, and any other response gives
\* the default payload.
S7CitationIntegrity_parse(raw_response) ==
    LET loaded == json_loads(raw_response)
    IN  IF /\ startswith(strip(raw_response), << "{" >>)
           /\ loaded.raised = "None"
           /\ "citations_found" \in DOMAIN loaded.value.v
        THEN Returns(loaded.value.v)
        ELSE Returns(("citations_found" :> JList(<< >>))
                     @@ ("all_valid" :> JBool(TRUE)))

\* ------------------------------------------------------------------------
\* Citation extraction and verification
\* ------------------------------------------------------------------------

\* CitationResult(cite, canonical, exists, is_fake, in_scdb).
CitationResult(cite, canonical, exists, is_fake, in_scdb) ==
    [ cite      |-> cite,
      canonical |-> canonical,
      exists    |-> exists,
      is_fake   |-> is_fake,
      in_scdb   |-> in_scdb ]

\* Variant of verify_citation: membership in the SCDB set is enough.
verify_citation_scdb_wins(cite, fake_us_cites, scdb_us_cites) ==
    LET canonical == canonicalize_cite(cite)
        is_fake   == canonical \in fake_us_cites
        in_scdb   == canonical \in scdb_us_cites
    IN  CitationResult(cite, canonical, in_scdb, is_fake, in_scdb)

\* verify_citation.
verify_citation(cite, fake_us_cites, scdb_us_cites) ==
    LET canonical == canonicalize_cite(cite)
        is_fake   == canonical \in fake_us_cites
        in_scdb   == canonical \in scdb_us_cites
        exists    == in_scdb /\ ~is_fake
    IN  CitationResult(cite, canonical, exists, is_fake, in_scdb)

\* Variant of the loop of verify_all_citations: all_valid is assigned the
\* exists flag of every citation in turn.
RECURSIVE verify_loop_last_wins(_, _, _, _, _)
verify_loop_last_wins(citations, fake_us_cites, scdb_us_cites, results,
                      all_valid) ==
    IF citations = << >>
    THEN << results, all_valid >>
    ELSE LET result == verify_citation(Head(citations), fake_us_cites,
                                       scdb_us_cites)
         IN  verify_loop_last_wins(Tail(citations), fake_us_cites,
                                   scdb_us_cites, Append(results, result),
                                   result.exists)

\* Variant of verify_all_citations with that loop.
verify_all_citations_last_wins(citations, fake_us_cites, scdb_us_cites) ==
    verify_loop_last_wins(citations, fake_us_cites, scdb_us_cites, << >>,
                          TRUE)

\* The loop of verify_all_citations over the citations not yet verified.
RECURSIVE verify_loop(_, _, _, _, _)
verify_loop(citations, fake_us_cites, scdb_us_cites, results, all_valid) ==
    IF citations = << >>
    THEN << results, all_valid >>
    ELSE LET result == verify_citation(Head(citations), fake_us_cites,
                                       scdb_us_cites)
         IN  verify_loop(Tail(citations), fake_us_cites, scdb_us_cites,
                         Append(results, result),
                         IF ~result.exists THEN FALSE ELSE all_valid)

\* verify_all_citations: (results, all_valid).
verify_all_citations(citations, fake_us_cites, scdb_us_cites) ==
    verify_loop(citations, fake_us_cites, scdb_us_cites, << >>, TRUE)

\* The characters \d and \s match, among those of the texts below.
DigitChars == { Digits[d] : d \in DOMAIN Digits }
Whitespace == { " ", "\n", "\t" }

\* The number of characters of the set that the text has from position i on
\* without interruption.
RECURSIVE run_length(_, _, _)
run_length(text, i, chars) ==
    IF i > Len(text) \/ text[i] \notin chars
    THEN 0
    ELSE 1 + run_length(text, i + 1, chars)

\* The character at position p of the text is one of the set.
char_in(text, p, chars) == p <= Len(text) /\ text[p] \in chars

\* The match of us_cite_pattern, \d{1,3}\s+U\.?\s*S\.?\s+\d{1,4} with
\* re.IGNORECASE, that starts at position i: the position of its last
\* character, or 0 when the pattern does not match there.
match_end(text, i) ==
    LET volume == run_length(text, i, DigitChars)
        gap1   == run_length(text, i + volume, Whitespace)
        u      == i + volume + gap1
        dot1   == IF char_in(text, u + 1, { "." }) THEN 1 ELSE 0
        gap2   == run_length(text, u + 1 + dot1, Whitespace)
        s      == u + 1 + dot1 + gap2
        dot2   == IF char_in(text, s + 1, { "." }) THEN 1 ELSE 0
        gap3   == run_length(text, s + 1 + dot2, Whitespace)
        page   == s + 1 + dot2 + gap3
        digits == run_length(text, page, DigitChars)
    IN  IF /\ volume \in 1..3
           /\ gap1 >= 1
           /\ char_in(text, u, { "U", "u" })
           /\ char_in(text, s, { "S", "s" })
           /\ gap3 >= 1
           /\ digits >= 1
        THEN page + (IF digits > 4 THEN 4 ELSE digits) - 1
        ELSE 0

\* re.findall(us_cite_pattern, text, re.IGNORECASE) from position i on: the
\* matches from left to right, none overlapping another.
RECURSIVE findall(_, _)
findall(text, i) ==
    IF i > Len(text) THEN << >>
    ELSE LET e == match_end(text, i)
         IN  IF e > 0
             THEN << SubSeq(text, i, e) >> \o findall(text, e + 1)
             ELSE findall(text, i + 1)

\* re.sub(r"\s+", " ", s).
RECURSIVE sub_whitespace(_)
sub_whitespace(s) ==
    IF s = << >> THEN << >>
    ELSE IF s[1] \in Whitespace
    THEN << " " >> \o sub_whitespace(str_from(s, run_length(s, 1, Whitespace)))
    ELSE << s[1] >> \o sub_whitespace(Tail(s))

\* The loop that cleans the matches.
cleaned_matches(matches) ==
    [ i \in DOMAIN matches |-> sub_whitespace(strip(matches[i])) ]

\* The loop that removes the duplicates, by canonical form.
RECURSIVE unique_loop(_, _, _)
unique_loop(citations, seen, unique) ==
    IF citations = << >> THEN unique
    ELSE LET cite      == Head(citations)
             canonical == canonicalize_cite(cite)
         IN  IF canonical \notin seen
             THEN unique_loop(Tail(citations), seen \cup { canonical },
                              Append(unique, cite))
             ELSE unique_loop(Tail(citations), seen, unique)

\* sub in s.
contains(s, sub) ==
    \E i \in 1..(Len(s) - Len(sub) + 1) :
        SubSeq(s, i, i + Len(sub) - 1) = sub

\* The str(cite) of the eyecite results that the filter keeps.
us_citations(eyecite_results) ==
    SelectSeq(eyecite_results,
        LAMBDA cite_text :
            \/ contains(cite_text, << "U", ".", "S", "." >>)
            \/ contains(cite_text, << "U", ".", " ", "S", "." >>))

\* extract_citations(text).  eyecite says whether the eyecite package can
\* be imported and, if so, gives the str(cite) of what its get_citations
\* returns for the text.
extract_citations(text, eyecite) ==
    LET citations == IF eyecite.installed
                     THEN us_citations(eyecite.results)
                     ELSE << >>
    IN  IF citations # << >>
        THEN citations
        ELSE unique_loop(citations \o cleaned_matches(findall(text, 1)),
                         {}, << >>)

\* Texts handed to extract_citations.

\* "no cites"
TextNoCitation ==
    << "n", "o", " ", "c", "i", "t", "e", "s" >>

\* "1 U.S. 2; 1 U. S. 2"
TextTwoSpellings ==
    << "1", " ", "U", ".", "S", ".", " ", "2", ";", " ", "1", " ",
       "U", ".", " ", "S", ".", " ", "2" >>

\* "3 U.S. 4, 1 U.S. 2, 3 U.S. 4"
TextRepeated ==
    << "3", " ", "U", ".", "S", ".", " ", "4", ",", " ", "1", " ",
       "U", ".", "S", ".", " ", "2", ",", " ", "3", " ", "U", ".",
       "S", ".", " ", "4" >>

\* "1  u.s.\n2"
TextLoose ==
    << "1", " ", " ", "u", ".", "s", ".", "\n", "2" >>

\* "1234 U.S. 56789"
TextLongNumbers ==
    << "1", "2", "3", "4", " ", "U", ".", "S", ".", " ", "5", "6",
       "7", "8", "9" >>

\* "1 US 2 and 1 U.S. 2"
TextBareReporter ==
    << "1", " ", "U", "S", " ", "2", " ", "a", "n", "d", " ", "1",
       " ", "U", ".", "S", ".", " ", "2" >>

\* A citation of another reporter, as eyecite may return it.
CiteF3d == << "1", " ", "F", ".", "3", "d", " ", "2" >>

\* ------------------------------------------------------------------------
\* Canonical ids
\* ------------------------------------------------------------------------

\* str(n) for an integer n >= 0, as an f-string renders it.
RECURSIVE int_str(_)
int_str(n) ==
    IF n < 10 THEN << Digits[n + 1] >>
    ELSE int_str(n \div 10) \o << Digits[(n % 10) + 1] >>

Scotus == << "s", "c", "o", "t", "u", "s" >>
Pair == << "p", "a", "i", "r" >>
DoubleColon == << ":", ":" >>

\* case_id(us_cite, term).
case_id(us_cite, term) ==
    Scotus \o DoubleColon \o canonicalize_cite(us_cite) \o DoubleColon
        \o int_str(term)

\* pair_id with the two citations in the other order.
pair_id_citing_first(cited_us_cite, citing_us_cite) ==
    Pair \o DoubleColon \o canonicalize_cite(citing_us_cite) \o DoubleColon
        \o canonicalize_cite(cited_us_cite)

\* pair_id(cited_us_cite, citing_us_cite).
pair_id(cited_us_cite, citing_us_cite) ==
    Pair \o DoubleColon \o canonicalize_cite(cited_us_cite) \o DoubleColon
        \o canonicalize_cite(citing_us_cite)

\* ------------------------------------------------------------------------
\* DatasetBuilder
\* ------------------------------------------------------------------------

\* pd.isna(x): None and NaN are missing values.
isna(x) == x.t = "NoneType" \/ (x.t = "float" /\ x.v = "nan")

\* "pd.isna(x) or not x": the cell holds no citation.
no_citation(x) == isna(x) \/ ~truthy(x)

\* CourtCase(us_cite=..., majority_opinion=...); the other fields play no
\* part in the joins.
CourtCase(us_cite, majority_opinion) ==
    [ t                |-> "CourtCase",
      us_cite          |-> us_cite,
      majority_opinion |-> majority_opinion ]

\* OverruleRecord(overruled_case_us_id=...).
OverruleRecord(us_id) ==
    [ t |-> "OverruleRecord", overruled_case_us_id |-> us_id ]

\* DatasetBuilder._build_case_index: the dict left by the loop over the
\* rows of the SCDB table, keyed by str(usCite).
RECURSIVE _build_case_index(_, _)
_build_case_index(rows, index) ==
    IF rows = << >> THEN index
    ELSE LET row == Head(rows)
         IN  IF no_citation(row.usCite)
             THEN _build_case_index(Tail(rows), index)
             ELSE _build_case_index(
                      Tail(rows),
                      dict_set(index, py_str(row.usCite),
                               CourtCase(py_str(row.usCite),
                                         IF isna(row.majority_opinion)
                                         THEN JNull
                                         ELSE row.majority_opinion)))

\* DatasetBuilder._build_overrule_index.
RECURSIVE _build_overrule_index(_, _)
_build_overrule_index(rows, index) ==
    IF rows = << >> THEN index
    ELSE LET row == Head(rows)
         IN  IF no_citation(row.overruled_case_us_id)
             THEN _build_overrule_index(Tail(rows), index)
             ELSE _build_overrule_index(
                      Tail(rows),
                      dict_set(index, py_str(row.overruled_case_us_id),
                               OverruleRecord(
                                   py_str(row.overruled_case_us_id))))

\* ChainInstance(id=..., cited_case=..., citing_case=..., overrule=...).
ChainInstance(id, cited_case, citing_case, overrule) ==
    [ t           |-> "ChainInstance",
      id          |-> id,
      cited_case  |-> cited_case,
      citing_case |-> citing_case,
      overrule    |-> overrule ]

\* ChainInstance.has_cited_text and has_citing_text.
has_cited_text(instance) == ~isna(instance.cited_case.majority_opinion)
has_citing_text(instance) ==
    /\ instance.citing_case.t # "NoneType"
    /\ ~isna(instance.citing_case.majority_opinion)

\* The variant of _build_instance_from_row that looks the citations up by
\* their canonical form.
_build_instance_from_row_canonical(row, case_by_us_cite, overrule_by_us_cite) ==
    IF no_citation(row.cited_case_us_cite) THEN JNull
    ELSE LET cited_us_cite  == py_str(row.cited_case_us_cite)
             citing_us_cite == IF isna(row.citing_case_us_cite) THEN << >>
                               ELSE py_str(row.citing_case_us_cite)
             lookup(d, c)   ==
                 IF \E k \in DOMAIN d :
                        canonicalize_cite(k) = canonicalize_cite(c)
                 THEN d[CHOOSE k \in DOMAIN d :
                            canonicalize_cite(k) = canonicalize_cite(c)]
                 ELSE JNull
             cited_case     == lookup(case_by_us_cite, cited_us_cite)
         IN  IF cited_case.t = "NoneType" THEN JNull
             ELSE ChainInstance(pair_id(cited_us_cite, citing_us_cite),
                                cited_case,
                                lookup(case_by_us_cite, citing_us_cite),
                                lookup(overrule_by_us_cite, cited_us_cite))

\* DatasetBuilder._build_instance_from_row on the indexes built before:
\* JNull for None.
_build_instance_from_row(row, case_by_us_cite, overrule_by_us_cite) ==
    IF no_citation(row.cited_case_us_cite) THEN JNull
    ELSE LET cited_us_cite  == py_str(row.cited_case_us_cite)
             citing_us_cite == IF isna(row.citing_case_us_cite) THEN << >>
                               ELSE py_str(row.citing_case_us_cite)
             cited_case     == dict_get(case_by_us_cite, cited_us_cite, JNull)
         IN  IF cited_case.t = "NoneType" THEN JNull
             ELSE ChainInstance(pair_id(cited_us_cite, citing_us_cite),
                                cited_case,
                                dict_get(case_by_us_cite, citing_us_cite,
                                         JNull),
                                dict_get(overrule_by_us_cite, cited_us_cite,
                                         JNull))

\* ------------------------------------------------------------------------
\* S7CitationIntegrity: the verification sets and the verification
\* ------------------------------------------------------------------------

\* build_canonical_sets(fake_us_cites, scdb_us_cites): a dict of SCDB
\* citations is given by the set of its keys.
build_canonical_sets(fake_us_cites, scdb_us_cites) ==
    << { canonicalize_cite(cite) : cite \in fake_us_cites },
       { canonicalize_cite(cite) : cite \in scdb_us_cites } >>

\* An argument of the constructor: None, or a set of citations.
NoneArg == [ given |-> FALSE, cites |-> {} ]
SetArg(cites) == [ given |-> TRUE, cites |-> cites ]

\* The truth value of such an argument: None and the empty set are false.
truthy_arg(a) == a.given /\ a.cites # {}

\* S7CitationIntegrity(fake_us_cites, scdb_us_cites): the fields of the
\* object.
S7CitationIntegrity_init(fake_us_cites, scdb_us_cites) ==
    LET fake  == IF truthy_arg(fake_us_cites) THEN fake_us_cites.cites ELSE {}
        scdb  == IF truthy_arg(scdb_us_cites) THEN scdb_us_cites.cites ELSE {}
        built == IF truthy_arg(fake_us_cites) /\ truthy_arg(scdb_us_cites)
                 THEN build_canonical_sets(fake, scdb)
                 ELSE << {}, {} >>
    IN  [ _fake_us_cites  |-> fake,
          _scdb_us_cites  |-> scdb,
          _canonical_fake |-> built[1],
          _canonical_scdb |-> built[2] ]

\* S7CitationIntegrity.set_verification_sets: the fields after the call.
S7CitationIntegrity_set_verification_sets(self, fake_us_cites, scdb_us_cites) ==
    LET built == build_canonical_sets(fake_us_cites, scdb_us_cites)
    IN  [ _fake_us_cites  |-> fake_us_cites,
          _scdb_us_cites  |-> scdb_us_cites,
          _canonical_fake |-> built[1],
          _canonical_scdb |-> built[2] ]

\* S7CitationIntegrity.execute_verification(s6_text).
S7CitationIntegrity_execute_verification(self, s6_text, eyecite) ==
    LET citations == extract_citations(s6_text, eyecite)
        verified  == verify_all_citations(citations, self._canonical_fake,
                                          self._canonical_scdb)
    IN  [ citations_found |->
              [ k \in DOMAIN verified[1] |->
                    [ cite   |-> verified[1][k].cite,
                      exists |-> verified[1][k].exists ] ],
          all_valid       |-> verified[2] ]

\* The text S7CitationIntegrity.prompt and create_result_from_verification
\* combine from the parsed S6 output.
s6_text_of(parsed) ==
    join(<< dict_get(parsed, "issue", << >>),
            dict_get(parsed, "rule", << >>),
            dict_get(parsed, "application", << >>),
            dict_get(parsed, "conclusion", << >>) >>, << "\n" >>)

\* What _execute_step passes from S7CitationIntegrity.parse to
\* S7CitationIntegrity.score and on to create_result: << score, correct >>
\* with 1 for 1.0 and 0 for 0.0.
S7CitationIntegrity_scored(raw_response) ==
    LET parsed == S7CitationIntegrity_parse(raw_response).ret
        scored == S7CitationIntegrity_score(
                      "all_valid" :> truthy(dict_get(parsed, "all_valid",
                                                     JBool(FALSE))),
                      "all_valid" :> TRUE)
    IN  << IF scored[1] = One THEN 1 ELSE 0, scored[2] >>

\* ------------------------------------------------------------------------
\* ChainExecutor
\* ------------------------------------------------------------------------

\* The (s7_step_id, s6_step_id) pairs passed to the constructor: its defaults.
GateConfigs ==
    { <<DEFAULT_S7_STEP_ID, DEFAULT_S6_STEP_ID>> }

VARIABLES
    steps,          \* self._steps
    s7_step_id,     \* self._s7_step_id, the gate id
    s6_step_id,     \* self._s6_step_id, the target id
    pc,             \* "idle" (constructed), "loop" (inside execute), "done"
    pos,            \* number of steps of self._steps already processed
    step_results,   \* ctx.step_results: step id -> StepResult
    key_order,      \* the key order of the ctx.step_results dict
    call_history,   \* the prompts backend.complete() received, by step id
    history,        \* per processed step: what the loop body saw and did
    chain_result,   \* the ChainResult execute() returned, or None (JNull)
    calls_left,     \* how many more times the caller will call execute()
    earlier,        \* the ChainResults of the calls before the current one
    callers,        \* concurrent calls of execute(): caller -> its frame
    api_log         \* calls made directly on StepResult, ChainContext, Step

vars == << steps, s7_step_id, s6_step_id, pc, pos, step_results, key_order,
           call_history, history, chain_result, calls_left, earlier,
           callers, api_log >>

\* The step lists a caller may hand to the constructor.
StepLists == UNION { [1..n -> StepConfigs] : n \in 0..MaxSteps }

\* The steps of the executors that are called several times or by several
\* callers: the target, the gate and a variant, with or without a
\* dependency on the target.
CallStepConfigs ==
    { c \in StepConfigs :
        c.requires \subseteq { DEFAULT_S6_STEP_ID } /\ c.variant \in { "", "a" } }

\* The step lists of the executors that are called several times.
CallStepLists == UNION { [1..n -> CallStepConfigs] : n \in 0..MaxCallSteps }

\* The step lists of the executors that are called concurrently.
ConcStepLists == UNION { [1..n -> CallStepConfigs] : n \in 0..MaxConcSteps }

\* The step lists of the runs whose termination is checked.
FairStepLists == UNION { [1..n -> StepConfigs] : n \in 0..MaxFairSteps }

\* The logical step name of a step id (the part before ":").
logical_name(sid) ==
    IF \E nv \in StepIdents : nv[2] # "" /\ sid = nv[1] \o ":" \o nv[2]
    THEN (CHOOSE nv \in StepIdents :
              nv[2] # "" /\ sid = nv[1] \o ":" \o nv[2])[1]
    ELSE sid

\* Variant of deps_satisfied: a requirement is matched on the logical step
\* name, so any OK variant of the step satisfies it.
deps_satisfied_by_name(required, ok_step_ids) ==
    \A d \in required :
        \E o \in ok_step_ids : logical_name(o) = logical_name(d)

\* Variant of deps_satisfied: proper subset instead of subset.
deps_satisfied_proper(required, ok_step_ids) ==
    required \subseteq ok_step_ids /\ required # ok_step_ids

\* The dependency test of _execute_step: required.issubset(ok_step_ids).
deps_satisfied(required, ok_step_ids) == required \subseteq ok_step_ids

\* Variant of missing_deps: every required id is reported.
missing_deps_all(required, ok_step_ids) == required

\* missing = required - ok_step_ids
missing_deps(required, ok_step_ids) == required \ ok_step_ids

\* Variant of _execute_step: the dependencies are checked before the
\* coverage.
_execute_step_deps_first(step, results, cov, sc) ==
    LET ok_step_ids == get_ok_step_ids(results)
        required    == requires(step)
    IN  IF ~deps_satisfied(required, ok_step_ids)
        THEN StepResult(step_id(step), step_name(step), _extract_variant(step),
                        STATUS_SKIPPED_DEPENDENCY, 0, FALSE,
                        << <<"Missing dependencies: ",
                             sorted(missing_deps(required, ok_step_ids))>> >>)
        ELSE IF ~cov
        THEN StepResult(step_id(step), step_name(step), _extract_variant(step),
                        STATUS_SKIPPED_COVERAGE, 0, FALSE, << >>)
        ELSE create_result(step, sc[1], sc[2])

\* ChainExecutor._execute_step.  cov is what step.check_coverage(ctx)
\* returned and sc what step.score(...) returned (consulted only on the path
\* that reaches them).
_execute_step(step, results, cov, sc) ==
    IF ~cov
    THEN StepResult(step_id(step), step_name(step), _extract_variant(step),
                    STATUS_SKIPPED_COVERAGE, 0, FALSE, << >>)
    ELSE LET ok_step_ids == get_ok_step_ids(results)
             required    == requires(step)
         IN  IF ~deps_satisfied(required, ok_step_ids)
             THEN LET missing == missing_deps(required, ok_step_ids)
                  IN  StepResult(step_id(step), step_name(step),
                                 _extract_variant(step),
                                 STATUS_SKIPPED_DEPENDENCY, 0, FALSE,
                                 << <<"Missing dependencies: ", sorted(missing)>> >>)
             ELSE create_result(step, sc[1], sc[2])

\* Variant of calls_backend: the prompt is sent before the dependencies are
\* checked.
calls_backend_before_deps(step, results, cov) == cov

\* Whether _execute_step reaches backend.complete(prompt).
calls_backend(step, results, cov) ==
    cov /\ deps_satisfied(requires(step), get_ok_step_ids(results))

\* Variant of step_calls: requires() is called for a step without coverage
\* as well.
step_calls_requires_always(step, results, cov) ==
    IF ~cov \/ ~deps_satisfied(requires(step), get_ok_step_ids(results))
    THEN << "check_coverage", "requires" >>
    ELSE << "check_coverage", "requires", "prompt", "complete", "parse",
            "ground_truth", "score", "create_result" >>

\* The methods of the step and of the backend that one call of
\* _execute_step invokes, in the order of the calls.
step_calls(step, results, cov) ==
    IF ~cov
    THEN << "check_coverage" >>
    ELSE IF ~deps_satisfied(requires(step), get_ok_step_ids(results))
    THEN << "check_coverage", "requires" >>
    ELSE << "check_coverage", "requires", "prompt", "complete", "parse",
            "ground_truth", "score", "create_result" >>

\* Variant of current_step: the list is walked from its end.
current_step_reversed(step_list, n) == step_list[Len(step_list) - n]

\* The step the loop of execute() takes after n iterations:
\* "for step in self._steps".
current_step(step_list, n) == step_list[n + 1]

\* Variant of is_gate_step: the voiding call is made after every step.
is_gate_step_any(sid, gate) == TRUE

\* The test of the loop of execute() that selects the gate step:
\* step.step_id == self._s7_step_id.
is_gate_step(sid, gate) == sid = gate

\* Variant of voiding_fires: the early return on a gate status other than OK
\* is missing.
voiding_fires_any_status(results, s7_result, target) ==
    /\ ~s7_result.correct
    /\ ctx_has(results, target)
    /\ results[target].status = STATUS_OK

\* The condition under which _apply_s7_voiding writes to the target result.
voiding_fires(results, s7_result, target) ==
    /\ s7_result.status = STATUS_OK
    /\ ~s7_result.correct
    /\ ctx_has(results, target)
    /\ results[target].status = STATUS_OK

\* Variant of _apply_s7_voiding: the test on the gate's correctness is
\* inverted.
_apply_s7_voiding_when_correct(results, s7_result, target) ==
    IF /\ s7_result.status = STATUS_OK
       /\ s7_result.correct
       /\ ctx_has(results, target)
       /\ results[target].status = STATUS_OK
    THEN [ results EXCEPT ![target].voided = TRUE,
                          ![target].void_reason = VOID_REASON ]
    ELSE results

\* Variant of _apply_s7_voiding: voiding also zeroes the target's score and
\* correctness.
_apply_s7_voiding_zeroes_score(results, s7_result, target) ==
    IF voiding_fires(results, s7_result, target)
    THEN [ results EXCEPT ![target].voided = TRUE,
                          ![target].void_reason = VOID_REASON,
                          ![target].score = 0,
                          ![target].correct = FALSE ]
    ELSE results

\* Variant of _apply_s7_voiding: the gate's own result is marked as well.
_apply_s7_voiding_marks_gate(results, s7_result, target) ==
    IF voiding_fires(results, s7_result, target)
    THEN [ results EXCEPT ![target].voided = TRUE,
                          ![target].void_reason = VOID_REASON,
                          ![s7_result.step_id].voided = TRUE,
                          ![s7_result.step_id].void_reason = VOID_REASON ]
    ELSE results

\* ChainExecutor._apply_s7_voiding: the context after the call.
_apply_s7_voiding(results, s7_result, target) ==
    IF voiding_fires(results, s7_result, target)
    THEN [ results EXCEPT ![target].voided = TRUE,
                          ![target].void_reason = VOID_REASON ]
    ELSE results

\* Variant of _build_chain_result: the outcome's flag is read off the s6
\* result of the default configuration instead of the gate's result.
_build_chain_result_from_target(results, order, gate) ==
    LET voided == /\ ctx_has(results, DEFAULT_S6_STEP_ID)
                  /\ results[DEFAULT_S6_STEP_ID].voided
    IN  [ step_results |-> results,
          key_order    |-> order,
          voided       |-> voided,
          void_reason  |-> IF voided THEN VOID_REASON ELSE None ]

\* ChainExecutor._build_chain_result
_build_chain_result(results, order, gate) ==
    LET voided == /\ ctx_has(results, gate)
                  /\ results[gate].status = STATUS_OK
                  /\ ~results[gate].correct
    IN  [ step_results |-> results,
          key_order    |-> order,
          voided       |-> voided,
          void_reason  |-> IF voided THEN VOID_REASON ELSE None ]

\* The body of the loop of execute() on a Context (its results and their key
\* order): _execute_step, ctx.set and, for the gate id, _apply_s7_voiding.
\* result is what _execute_step returned and voiding whether a result was
\* voided.
loop_body(step, results, order, cov, sc, gate, target) ==
    LET sid       == step_id(step)
        result    == _execute_step(step, results, cov, sc)
        after_set == ctx_set(results, sid, result)
        is_gate   == is_gate_step(sid, gate)
    IN  [ step_results |-> IF is_gate
                           THEN _apply_s7_voiding(after_set, result, target)
                           ELSE after_set,
          key_order    |-> ctx_set_order(order, results, sid),
          result       |-> result,
          voiding      |-> is_gate /\ voiding_fires(after_set, result, target) ]

\* The callers that call execute() on one executor at the same time.
Callers == { "A", "B" }

\* The frame of a concurrent call of execute() before the call is made: its
\* position, its local ctx (results and key order), what it did so far and
\* the ChainResult it returned (none yet).
IdleFrame ==
    [ pc |-> "idle", pos |-> 0, step_results |-> << >>, key_order |-> << >>,
      history |-> << >>, outcome |-> << >> ]

\* An executor constructed over one of the given step lists, before its
\* caller makes the first of `calls` calls of execute(), or before the
\* given concurrent callers call it.
Constructed(step_lists, calls, concurrent) ==
    /\ steps \in step_lists
    /\ \E g \in GateConfigs : s7_step_id = g[1] /\ s6_step_id = g[2]
    /\ pc = "idle"
    /\ pos = 0
    /\ step_results = << >>
    /\ key_order = << >>
    /\ call_history = << >>
    /\ history = << >>
    /\ chain_result = JNull
    /\ calls_left = calls
    /\ earlier = << >>
    /\ callers = [ t \in concurrent |-> IdleFrame ]
    /\ api_log = << >>

Init == Constructed(StepLists, 1, {})

\* Variant of Execute: the Context is kept on the executor and used again
\* by the next call.
Execute_reusing_context ==
    /\ pc \in { "idle", "done" }
    /\ calls_left > 0
    /\ calls_left' = calls_left - 1
    /\ earlier' = IF pc = "done" THEN Append(earlier, chain_result) ELSE earlier
    /\ pc' = "loop"
    /\ pos' = 0
    /\ history' = << >>
    /\ UNCHANGED << steps, s7_step_id, s6_step_id, call_history, chain_result,
                    callers, api_log, step_results, key_order >>

\* execute(instance), entry: a fresh ChainContext.  A caller may call
\* execute() again once the call before has returned.
Execute ==
    /\ pc \in { "idle", "done" }
    /\ calls_left > 0
    /\ calls_left' = calls_left - 1
    /\ earlier' = IF pc = "done" THEN Append(earlier, chain_result) ELSE earlier
    /\ pc' = "loop"
    /\ pos' = 0
    /\ step_results' = << >>
    /\ key_order' = << >>
    /\ history' = << >>
    /\ UNCHANGED << steps, s7_step_id, s6_step_id, call_history, chain_result,
                    callers, api_log >>

\* One iteration of the loop of execute(): _execute_step, ctx.set and, for
\* the gate id, _apply_s7_voiding.
ExecuteStep ==
    /\ pc = "loop"
    /\ pos < Len(steps)
    /\ \E cov \in BOOLEAN, sc \in ScoreOutcomes :
        LET step == current_step(steps, pos)
            body == loop_body(step, step_results, key_order, cov, sc,
                              s7_step_id, s6_step_id)
        IN  /\ step_results' = body.step_results
            /\ key_order' = body.key_order
            /\ call_history' =
                 IF calls_backend(step, step_results, cov)
                 THEN Append(call_history, step_id(step))
                 ELSE call_history
            /\ history' = Append(history,
                 [ step_id  |-> step_id(step),
                   requires |-> requires(step),
                   cov      |-> cov,
                   calls    |-> step_calls(step, step_results, cov),
                   sent     |-> Len(call_history),
                   before   |-> step_results,
                   result   |-> body.result,
                   voiding  |-> body.voiding ])
    /\ pos' = pos + 1
    /\ UNCHANGED << steps, s7_step_id, s6_step_id, pc, chain_result,
                    calls_left, earlier, callers, api_log >>

\* Variant of Return: the run is given up at the first skipped step.
Return_at_first_skip ==
    /\ pc = "loop"
    /\ \/ pos = Len(steps)
       \/ /\ history # << >>
          /\ history[Len(history)].result.status # STATUS_OK
    /\ chain_result' = _build_chain_result(step_results, key_order, s7_step_id)
    /\ pc' = "done"
    /\ UNCHANGED << steps, s7_step_id, s6_step_id, pos, step_results,
                    key_order, call_history, history, calls_left, earlier,
                    callers, api_log >>

\* execute(), exit: return self._build_chain_result(ctx).
Return ==
    /\ pc = "loop"
    /\ pos = Len(steps)
    /\ chain_result' = _build_chain_result(step_results, key_order, s7_step_id)
    /\ pc' = "done"
    /\ UNCHANGED << steps, s7_step_id, s6_step_id, pos, step_results,
                    key_order, call_history, history, calls_left, earlier,
                    callers, api_log >>

Next == Execute \/ ExecuteStep \/ Return

Spec == Init /\ [][Next]_vars

\* An executor whose caller calls execute() several times, each time on an
\* instance of its own.
CallsInit == Constructed(CallStepLists, MaxCalls, {})

CallsSpec == CallsInit /\ [][Next]_vars

\* execute(instance) entered by a concurrent caller: a ChainContext of its
\* own.
ConcExecute(t) ==
    /\ callers[t].pc = "idle"
    /\ callers' = [ callers EXCEPT ![t] =
                      [ @ EXCEPT !.pc = "loop", !.pos = 0,
                                 !.step_results = << >>,
                                 !.key_order = << >>,
                                 !.history = << >> ] ]
    /\ UNCHANGED << steps, s7_step_id, s6_step_id, pc, pos, step_results,
                    key_order, call_history, history, chain_result,
                    calls_left, earlier, api_log >>

\* Variant of ConcExecuteStep: the Context is an attribute of the executor,
\* read and written by every caller.
ConcExecuteStep_shared_context(t) ==
    /\ callers[t].pc = "loop"
    /\ callers[t].pos < Len(steps)
    /\ \E cov \in BOOLEAN, sc \in ScoreOutcomes :
        LET frame == callers[t]
            step  == current_step(steps, frame.pos)
            body  == loop_body(step, step_results, key_order, cov, sc,
                               s7_step_id, s6_step_id)
        IN  /\ step_results' = body.step_results
            /\ key_order' = body.key_order
            /\ callers' = [ callers EXCEPT ![t] =
                 [ @ EXCEPT !.pos = @ + 1,
                            !.step_results = body.step_results,
                            !.key_order = body.key_order,
                            !.history = Append(@,
                                [ step_id |-> step_id(step),
                                  cov     |-> cov,
                                  result  |-> body.result ]) ] ]
    /\ UNCHANGED << steps, s7_step_id, s6_step_id, pc, pos, call_history,
                    history, chain_result, calls_left, earlier, api_log >>

\* One iteration of the loop of execute() made by a concurrent caller, on
\* the caller's own ctx.  The backend is stateless: a call of complete()
\* leaves nothing behind.
ConcExecuteStep(t) ==
    /\ callers[t].pc = "loop"
    /\ callers[t].pos < Len(steps)
    /\ \E cov \in BOOLEAN, sc \in ScoreOutcomes :
        LET frame == callers[t]
            step  == current_step(steps, frame.pos)
            body  == loop_body(step, frame.step_results, frame.key_order,
                               cov, sc, s7_step_id, s6_step_id)
        IN  callers' = [ callers EXCEPT ![t] =
                 [ @ EXCEPT !.pos = @ + 1,
                            !.step_results = body.step_results,
                            !.key_order = body.key_order,
                            !.history = Append(@,
                                [ step_id |-> step_id(step),
                                  cov     |-> cov,
                                  result  |-> body.result ]) ] ]
    /\ UNCHANGED << steps, s7_step_id, s6_step_id, pc, pos, step_results,
                    key_order, call_history, history, chain_result,
                    calls_left, earlier, api_log >>

\* execute() returning to a concurrent caller.
ConcReturn(t) ==
    /\ callers[t].pc = "loop"
    /\ callers[t].pos = Len(steps)
    /\ callers' = [ callers EXCEPT ![t] =
         [ @ EXCEPT !.pc = "done",
                    !.outcome = << _build_chain_result(
                                       callers[t].step_results,
                                       callers[t].key_order,
                                       s7_step_id) >> ] ]
    /\ UNCHANGED << steps, s7_step_id, s6_step_id, pc, pos, step_results,
                    key_order, call_history, history, chain_result,
                    calls_left, earlier, api_log >>

\* Two callers calling execute() on one executor, each on an instance of
\* its own, their steps interleaved in any way.
ConcInit == Constructed(ConcStepLists, 0, Callers)

ConcNext ==
    \E t \in Callers : ConcExecute(t) \/ ConcExecuteStep(t) \/ ConcReturn(t)

ConcSpec == ConcInit /\ [][ConcNext]_vars

\* The logical step names has_step is asked about: those of the steps and
\* one that no step has.
StepNames == { ident[1] : ident \in StepIdents } \cup { "s5" }

\* ctx.set(step_id, StepResult(step_id=..., step=..., variant=...,
\* status=...)) on a Context used directly: the constructor raises
\* ValueError for an invalid status and then nothing is stored.
SetNewStepResult ==
    /\ Len(api_log) < MaxApiCalls
    /\ \E ident \in StepIdents, status \in StatusInputs :
        LET step   == [ name |-> ident[1], variant |-> ident[2],
                        requires |-> {} ]
            sid    == step_id(step)
            raises == __post_init__(status)
            result == StepResult(sid, step_name(step), _extract_variant(step),
                                 status, 0, FALSE, << >>)
        IN  /\ step_results' =
                 IF raises THEN step_results
                 ELSE ctx_set(step_results, sid, result)
            /\ key_order' =
                 IF raises THEN key_order
                 ELSE ctx_set_order(key_order, step_results, sid)
            /\ api_log' = Append(api_log,
                 [ op      |-> "StepResult",
                   step_id |-> sid,
                   status  |-> status,
                   raised  |-> raises,
                   before  |-> step_results ])
    /\ UNCHANGED << steps, s7_step_id, s6_step_id, pc, pos, call_history,
                    history, chain_result, calls_left, earlier, callers >>

\* ctx.has_step(step_name) on a Context used directly.
HasStep ==
    /\ Len(api_log) < MaxApiCalls
    /\ \E name \in StepNames :
          api_log' = Append(api_log,
              [ op        |-> "has_step",
                step_name |-> name,
                ret       |-> has_step(step_results, name),
                before    |-> step_results ])
    /\ UNCHANGED << steps, s7_step_id, s6_step_id, pc, pos, step_results,
                    key_order, call_history, history, chain_result,
                    calls_left, earlier, callers >>

\* A ChainContext used directly, as the unit tests do, starting empty.
CtxInit == Constructed({ << >> }, 0, {})

CtxNext == SetNewStepResult \/ HasStep

CtxSpec == CtxInit /\ [][CtxNext]_vars

\* step.score(parsed, ground_truth) called on a concrete step: what it
\* returns and the payload as the call leaves it (no score() assigns to
\* its ground_truth argument).
ScoreCall(step, parsed, ground_truth, ret, parsed_after) ==
    /\ Len(api_log) < MaxScoreCalls
    /\ api_log' = Append(api_log,
         [ op           |-> "score",
           step         |-> step,
           parsed       |-> parsed,
           ground_truth |-> ground_truth,
           ret          |-> ret,
           parsed_after |-> parsed_after,
           ground_truth_after |-> ground_truth,
           again        |-> 0 ])
    /\ UNCHANGED << steps, s7_step_id, s6_step_id, pc, pos, step_results,
                    key_order, call_history, history, chain_result,
                    calls_left, earlier, callers >>

ScoreS1 ==
    \E c \in 0..3, t \in 0..2, e \in BOOLEAN, g \in 1..2 :
        LET parsed ==
                with_errors(
                    optional("us_cite", c, << Cite347, Cite347Spaced, Cite410 >>)
                    @@ optional("term", t, << 1954, 1973 >>), e)
            ground_truth ==
                ("us_cite" :> << Cite347, Cite410 >>[g])
                @@ ("term" :> << 1954, 1973 >>[g])
        IN  ScoreCall("s1", parsed, ground_truth,
                      S1KnownAuthority_score(parsed, ground_truth), parsed)

ScoreS2 ==
    \E l \in 0..4, e \in BOOLEAN, g \in 1..2 :
        LET parsed ==
                with_errors(
                    optional("citing_cases", l,
                        << << >>,
                           << "us_cite" :> Cite347Spaced >>,
                           << "us_cite" :> Cite410 >>,
                           << "us_cite" :> Cite410, "us_cite" :> Cite347 >> >>),
                    e)
            ground_truth ==
                "citing_case_us_cite" :> << << >>, Cite347 >>[g]
        IN  ScoreCall("s2", parsed, ground_truth,
                      S2UnknownAuthority_score(parsed, ground_truth),
                      S2UnknownAuthority_score_parsed(parsed, ground_truth))

ScoreS3 ==
    \E o \in 0..2, e \in BOOLEAN, g \in BOOLEAN :
        LET parsed ==
                with_errors(optional("is_overruled", o, << TRUE, FALSE >>), e)
            ground_truth == "is_overruled" :> g
        IN  ScoreCall("s3", parsed, ground_truth,
                      S3ValidateAuthority_score(parsed, ground_truth), parsed)

ScoreS4 ==
    \E d \in 0..2, w \in 0..2, e \in BOOLEAN, g \in 1..2 :
        LET parsed ==
                with_errors(
                    optional("disposition", d, << Affirmed, Reversed >>)
                    @@ optional("party_winning", w,
                                << Petitioner, Respondent >>), e)
            ground_truth ==
                ("disposition" :> << Affirmed, ReversedCapital >>[g])
                @@ ("party_winning" :> << Petitioner, Respondent >>[g])
        IN  ScoreCall("s4", parsed, ground_truth,
                      S4FactExtraction_score(parsed, ground_truth), parsed)

ScoreS5 ==
    \E a \in 0..2, e \in BOOLEAN, g \in BOOLEAN :
        LET parsed == with_errors(optional("agrees", a, << TRUE, FALSE >>), e)
            ground_truth == "agrees" :> g
        IN  ScoreCall("s5", parsed, ground_truth,
                      _score_s5(parsed, ground_truth), parsed)

ScoreS6 ==
    \E i \in 0..2, r \in 1..2, a \in 1..2, c \in 1..2, e \in BOOLEAN :
        LET texts  == << LongText, ShortPaddedText >>
            parsed ==
                with_errors(
                    optional("issue", i, texts) @@ optional("rule", r, texts)
                    @@ optional("application", a, texts)
                    @@ optional("conclusion", c, texts), e)
        IN  ScoreCall("s6", parsed, EmptyDict,
                      S6IRACSynthesis_score(parsed, EmptyDict), parsed)

ScoreS7 ==
    \E v \in 0..2, e \in BOOLEAN :
        LET parsed ==
                with_errors(
                    ("citations_found" :> << >>)
                    @@ optional("all_valid", v, << TRUE, FALSE >>), e)
            ground_truth == "all_valid" :> TRUE
        IN  ScoreCall("s7", parsed, ground_truth,
                      S7CitationIntegrity_score(parsed, ground_truth), parsed)

\* step.score(parsed, ground_truth) of the concrete step of that name:
\* what it returns.
Step_score(step, parsed, ground_truth) ==
    CASE step = "s1" -> S1KnownAuthority_score(parsed, ground_truth)
      [] step = "s2" -> S2UnknownAuthority_score(parsed, ground_truth)
      [] step = "s3" -> S3ValidateAuthority_score(parsed, ground_truth)
      [] step = "s4" -> S4FactExtraction_score(parsed, ground_truth)
      [] step = "s5" -> _score_s5(parsed, ground_truth)
      [] step = "s6" -> S6IRACSynthesis_score(parsed, ground_truth)
      [] step = "s7" -> S7CitationIntegrity_score(parsed, ground_truth)

\* step.score(parsed, ground_truth) of the concrete step of that name: the
\* payload as the call leaves it.
Step_score_parsed(step, parsed, ground_truth) ==
    IF step = "s2"
    THEN S2UnknownAuthority_score_parsed(parsed, ground_truth)
    ELSE parsed

\* The last score() call is made once more with the same two dict objects,
\* as the first call left them.
ScoreAgain ==
    /\ api_log # << >>
    /\ LET last == api_log[Len(api_log)]
       IN  /\ last.op = "score"
           /\ last.again < MaxRescores
           /\ api_log' = Append(api_log,
                [ op           |-> "score",
                  step         |-> last.step,
                  parsed       |-> last.parsed_after,
                  ground_truth |-> last.ground_truth_after,
                  ret          |-> Step_score(last.step, last.parsed_after,
                                              last.ground_truth_after),
                  parsed_after |-> Step_score_parsed(last.step,
                                      last.parsed_after,
                                      last.ground_truth_after),
                  ground_truth_after |-> last.ground_truth_after,
                  again        |-> last.again + 1 ])
    /\ UNCHANGED << steps, s7_step_id, s6_step_id, pc, pos, step_results,
                    key_order, call_history, history, chain_result,
                    calls_left, earlier, callers >>

\* The score() methods of the concrete steps called directly, as the unit
\* tests do.
ScoreInit == Constructed({ << >> }, 0, {})

ScoreNext ==
    \/ ScoreS1 \/ ScoreS2 \/ ScoreS3 \/ ScoreS4 \/ ScoreS5 \/ ScoreS6
    \/ ScoreS7 \/ ScoreAgain

ScoreSpec == ScoreInit /\ [][ScoreNext]_vars

\* The responses handed to parse(): texts that are no JSON, JSON documents
\* that are no objects, objects without the expected keys, and objects with
\* expected keys of expected and of unexpected types.
RawResponses ==
    { RawNotJson, RawEmptyText, RawTruncated, RawJsonList, RawEmptyObject,
      RawPaddedObject, RawFencedObject, RawS1Text, RawS1TermHuge,
      RawS1TermWord, RawS2Text, RawS2NotList, RawS3Text, RawS3YearHuge,
      RawS4Text, RawS5Text, RawS5Word, RawS6Text, RawS7Text }

\* step.parse(raw_response) called on a concrete step: the exception it
\* raises ("None" for none) and the payload it returns.
ParseCall(step, raw_response, outcome) ==
    /\ Len(api_log) < MaxParseCalls
    /\ api_log' = Append(api_log,
         [ op           |-> "parse",
           step         |-> step,
           raw_response |-> raw_response,
           raised       |-> outcome.raised,
           ret          |-> outcome.ret ])
    /\ UNCHANGED << steps, s7_step_id, s6_step_id, pc, pos, step_results,
                    key_order, call_history, history, chain_result,
                    calls_left, earlier, callers >>

ParseS1 ==
    \E raw \in RawResponses : ParseCall("s1", raw, S1KnownAuthority_parse(raw))

ParseS2 ==
    \E raw \in RawResponses : ParseCall("s2", raw, S2UnknownAuthority_parse(raw))

ParseS3 ==
    \E raw \in RawResponses : ParseCall("s3", raw, S3ValidateAuthority_parse(raw))

ParseS4 ==
    \E raw \in RawResponses : ParseCall("s4", raw, S4FactExtraction_parse(raw))

ParseS5 ==
    \E raw \in RawResponses : ParseCall("s5", raw, _parse_s5_response(raw))

ParseS6 ==
    \E raw \in RawResponses : ParseCall("s6", raw, S6IRACSynthesis_parse(raw))

ParseS7 ==
    \E raw \in RawResponses : ParseCall("s7", raw, S7CitationIntegrity_parse(raw))

\* The parse() methods of the concrete steps called directly, as the unit
\* tests do.
ParseInit == Constructed({ << >> }, 0, {})

ParseNext ==
    ParseS1 \/ ParseS2 \/ ParseS3 \/ ParseS4 \/ ParseS5 \/ ParseS6 \/ ParseS7

ParseSpec == ParseInit /\ [][ParseNext]_vars

\* The canonical citation sets handed to the verifier: a fake set that is
\* empty or holds one citation, and a true set of any of two citations, one
\* of them the citation of the fake set.
FakeSets == SUBSET { canonicalize_cite(Cite347) }
ScdbSets == SUBSET { canonicalize_cite(Cite347), canonicalize_cite(Cite410) }

\* The citations handed to the verifier.
Citations == { Cite347, Cite347Spaced, Cite410 }

\* The citation lists handed to verify_all_citations.
CitationLists == UNION { [1..n -> Citations] : n \in 0..MaxCitations }

\* The texts handed to extract_citations.
Texts ==
    { TextNoCitation, TextTwoSpellings, TextRepeated, TextLoose,
      TextLongNumbers, TextBareReporter }

\* The entries of the list at the positions of the set, in their order.
entries_at(list, positions) ==
    LET upto[k \in 0..Len(list)] ==
            IF k = 0 THEN << >>
            ELSE IF k \in positions THEN Append(upto[k - 1], list[k])
            ELSE upto[k - 1]
    IN  upto[Len(list)]

\* Whether eyecite can be imported and, if so, what its get_citations
\* returns for the text: one entry for each occurrence of a citation that
\* it recognises, which may be any of the occurrences in the text, or the
\* citation of another reporter.
EyeciteOutcomes(text) ==
    { [ installed |-> FALSE, results |-> << >> ] }
    \cup { [ installed |-> TRUE,
             results   |-> entries_at(findall(text, 1), positions) ] :
             positions \in SUBSET DOMAIN findall(text, 1) }
    \cup { [ installed |-> TRUE, results |-> << CiteF3d >> ] }

\* A call of a function of core/scoring/citation_verify.py, with its
\* arguments and what it returned.
CiteCall(entry) ==
    /\ Len(api_log) < MaxCiteCalls
    /\ api_log' = Append(api_log, entry)
    /\ UNCHANGED << steps, s7_step_id, s6_step_id, pc, pos, step_results,
                    key_order, call_history, history, chain_result,
                    calls_left, earlier, callers >>

VerifyCitation ==
    \E cite \in Citations, fake \in FakeSets, scdb \in ScdbSets :
        CiteCall([ op            |-> "verify_citation",
                   cite          |-> cite,
                   fake_us_cites |-> fake,
                   scdb_us_cites |-> scdb,
                   ret           |-> verify_citation(cite, fake, scdb) ])

VerifyAllCitations ==
    \E citations \in CitationLists, fake \in FakeSets, scdb \in ScdbSets :
        CiteCall([ op            |-> "verify_all_citations",
                   citations     |-> citations,
                   fake_us_cites |-> fake,
                   scdb_us_cites |-> scdb,
                   ret           |-> verify_all_citations(citations, fake,
                                                          scdb) ])

ExtractCitations ==
    \E text \in Texts : \E eyecite \in EyeciteOutcomes(text) :
        CiteCall([ op      |-> "extract_citations",
                   text    |-> text,
                   eyecite |-> eyecite,
                   ret     |-> extract_citations(text, eyecite) ])

\* The functions of the citation verifier called directly, as the unit
\* tests do.
CiteInit == Constructed({ << >> }, 0, {})

CiteNext == VerifyCitation \/ VerifyAllCitations \/ ExtractCitations

CiteSpec == CiteInit /\ [][CiteNext]_vars

\* The spellings of the reporter token that us_cite_pattern accepts with
\* re.IGNORECASE, U\.?\s*S\.?: either letter in either case, each period
\* present or not, and no blank or one blank between the two letters.
ReporterTokens ==
    { << u >> \o dot1 \o gap \o << s >> \o dot2 :
          u \in { "U", "u" }, dot1 \in { << >>, << "." >> },
          gap \in { << >>, << " " >> },
          s \in { "S", "s" }, dot2 \in { << >>, << "." >> } }

\* The citation of volume 1, page 2 with the reporter spelled that way.
ReporterCitation(token) == << "1", " " >> \o token \o << " ", "2" >>

\* The texts handed to extract_citations: one spelling of the citation, or
\* two spellings of it separated by "; ".
ReporterTexts ==
    { ReporterCitation(token) : token \in ReporterTokens }
    \cup { ReporterCitation(first) \o << ";", " " >> \o ReporterCitation(second) :
             first \in ReporterTokens, second \in ReporterTokens }

\* extract_citations(text) on a text of spellings of one citation, where
\* the eyecite package is not importable (the regex path).
ExtractReporterSpellings ==
    /\ api_log = << >>
    /\ \E text \in ReporterTexts :
           LET eyecite == [ installed |-> FALSE, results |-> << >> ]
           IN  CiteCall([ op      |-> "extract_citations",
                          text    |-> text,
                          eyecite |-> eyecite,
                          ret     |-> extract_citations(text, eyecite) ])

ReporterInit == Constructed({ << >> }, 0, {})

ReporterNext == ExtractReporterSpellings

ReporterSpec == ReporterInit /\ [][ReporterNext]_vars

\* The characters of the strings handed to canonicalize_cite: the letters
\* of the reporter in both cases, the period, the blank, and a punctuation
\* mark and a whitespace character the function has no rule for.
CanonAlphabet == { "U", "S", "u", ".", " ", ",", "\t" }

ShortStrings == UNION { [ 1..k -> CanonAlphabet ] : k \in 0..MaxCanonLen }

\* Volume and page numbers.
NumberDigits == { "3", "4", "7" }
Numbers == UNION { [ 1..k -> NumberDigits ] : k \in 1..MaxDigits }

\* "{volume} U.S. {page}" and "{volume} U. S. {page}".
ReporterCompact(volume, page) ==
    volume \o << " ", "U", ".", "S", ".", " " >> \o page
ReporterSpaced(volume, page) ==
    volume \o << " ", "U", ".", " ", "S", ".", " " >> \o page

ReporterCitations ==
    { ReporterCompact(v, p) : v \in Numbers, p \in Numbers }
        \cup { ReporterSpaced(v, p) : v \in Numbers, p \in Numbers }

\* The citations of the unit tests, one of them already canonical.
Key347 == << "3", "4", "7", "_", "u", "s", "_", "4", "8", "3" >>
TestCitations == { Cite347, Cite347Spaced, Cite410, Key347 }

CanonInputs == ShortStrings \cup ReporterCitations \cup TestCitations

\* canonicalize_cite(cite), called on a string or on what the call before
\* returned.
CanonicalizeCite ==
    /\ Len(api_log) < MaxCanonCalls
    /\ \E cite \in (IF api_log = << >> THEN CanonInputs
                    ELSE { api_log[Len(api_log)].ret }) :
           api_log' = Append(api_log, [ op   |-> "canonicalize_cite",
                                        cite |-> cite,
                                        ret  |-> canonicalize_cite(cite) ])
    /\ UNCHANGED << steps, s7_step_id, s6_step_id, pc, pos, step_results,
                    key_order, call_history, history, chain_result,
                    calls_left, earlier, callers >>

\* canonicalize_cite called directly, as the unit tests do.
CanonInit == Constructed({ << >> }, 0, {})

CanonNext == CanonicalizeCite

CanonSpec == CanonInit /\ [][CanonNext]_vars

\* The citations and terms handed to case_id and pair_id.
CiteOne == << "1" >>
CiteColons == << "1", ":", ":", "1" >>
IdCites == { Cite347, Cite347Spaced, Cite410, CiteOne, CiteColons }
Terms == { 1954, 1973 }

IdCall(entry) ==
    /\ Len(api_log) < MaxIdCalls
    /\ api_log' = Append(api_log, entry)
    /\ UNCHANGED << steps, s7_step_id, s6_step_id, pc, pos, step_results,
                    key_order, call_history, history, chain_result,
                    calls_left, earlier, callers >>

CaseId ==
    \E us_cite \in IdCites, term \in Terms :
        IdCall([ op      |-> "case_id",
                 us_cite |-> us_cite,
                 term    |-> term,
                 ret     |-> case_id(us_cite, term) ])

PairId ==
    \E cited_us_cite \in IdCites, citing_us_cite \in IdCites :
        IdCall([ op             |-> "pair_id",
                 cited_us_cite  |-> cited_us_cite,
                 citing_us_cite |-> citing_us_cite,
                 ret            |-> pair_id(cited_us_cite, citing_us_cite) ])

\* case_id and pair_id called directly, as the unit tests do.
IdsInit == Constructed({ << >> }, 0, {})

IdsNext == CaseId \/ PairId

IdsSpec == IdsInit /\ [][IdsNext]_vars

\* The tables of a DatasetBundle: SCDB rows with a citation in one of its
\* spellings, or none, and an opinion text or none; overruled rows; and
\* the rows of the Shepard's table.
NaN == JFloat("nan")
Opinion == << "o", "p", "i", "n", "i", "o", "n" >>
Seqs(S, n) == UNION { [ 1..k -> S ] : k \in 0..n }

ScdbRows ==
    [ usCite           : { JStr(Cite347), JStr(Cite347Spaced), JStr(Cite410),
                           NaN },
      majority_opinion : { JStr(Opinion), NaN } ]
OverruledRows ==
    [ overruled_case_us_id : { JStr(Cite347), JStr(Cite347Spaced) } ]
ShepardsRows ==
    [ cited_case_us_cite  : { JStr(Cite347), JStr(Cite347Spaced),
                              JStr(Cite410), NaN },
      citing_case_us_cite : { JStr(Cite347), JStr(Cite347Spaced),
                              JStr(Cite410), NaN } ]

\* DatasetBuilder(bundle).build_indexes() followed by
\* _build_instance_from_row(row) for a row of the Shepard's table.
BuildInstance ==
    /\ api_log = << >>
    /\ \E scdb \in Seqs(ScdbRows, MaxScdbRows),
          overruled \in Seqs(OverruledRows, MaxOverruledRows),
          row \in ShepardsRows :
           api_log' =
               << [ op        |-> "_build_instance_from_row",
                    scdb      |-> scdb,
                    overruled |-> overruled,
                    row       |-> row,
                    ret       |-> _build_instance_from_row(
                                      row,
                                      _build_case_index(scdb, EmptyDict),
                                      _build_overrule_index(overruled,
                                                            EmptyDict)) ] >>
    /\ UNCHANGED << steps, s7_step_id, s6_step_id, pc, pos, step_results,
                    key_order, call_history, history, chain_result,
                    calls_left, earlier, callers >>

\* A DatasetBuilder over a bundle, its indexes not yet built.
BuildInit == Constructed({ << >> }, 0, {})

BuildNext == BuildInstance

BuildSpec == BuildInit /\ [][BuildNext]_vars

\* The sets handed to S7CitationIntegrity: raw citations, one of them in the
\* spaced spelling.
FakeCites == { {}, { Cite410 } }
ScdbCites == { {}, { Cite347Spaced }, { Cite347, Cite410 } }

\* Parsed S6 outputs: without a citation, with a citation, with another
\* one, and with both.
\* "See 347 U.S. 483"
IssueBrown ==
    << "S", "e", "e", " ", "3", "4", "7", " ", "U", ".", "S", ".",
       " ", "4", "8", "3" >>

\* "Under 410 U. S. 113"
RuleRoe ==
    << "U", "n", "d", "e", "r", " ", "4", "1", "0", " ", "U", ".",
       " ", "S", ".", " ", "1", "1", "3" >>

S6Outputs ==
    { "issue" :> TextNoCitation,
      "issue" :> IssueBrown,
      ("issue" :> LongText) @@ ("rule" :> RuleRoe),
      ("issue" :> IssueBrown) @@ ("rule" :> RuleRoe)
          @@ ("application" :> LongText) @@ ("conclusion" :> Affirmed) }

\* What the backend answers to the prompt of S7: the default of the
\* MockBackend, prose, and a JSON document with the two keys.
S7Responses == { RawEmptyObject, RawNotJson, RawS7Text }

\* The S6 step of the chain, as the stub of the tests, and the S7 step.
S6Step == [ name |-> "s6", variant |-> "", requires |-> {} ]
S7Step == [ name |-> "s7", variant |-> "", requires |-> { "s6" } ]

\* The object the calls are made on: the one the last call left.
S7Self == api_log[Len(api_log)].self

S7Call(entry) ==
    /\ Len(api_log) < MaxS7Calls
    /\ api_log' = Append(api_log, entry)
    /\ UNCHANGED << steps, s7_step_id, s6_step_id, pc, pos, step_results,
                    key_order, call_history, history, chain_result,
                    calls_left, earlier, callers >>

\* S7CitationIntegrity(fake_us_cites, scdb_us_cites), each argument a set
\* or left at its default None.
S7Construct ==
    /\ api_log = << >>
    /\ \E fake \in { NoneArg } \cup { SetArg(c) : c \in FakeCites },
          scdb \in { NoneArg } \cup { SetArg(c) : c \in ScdbCites } :
           S7Call([ op            |-> "__init__",
                    fake_us_cites |-> fake,
                    scdb_us_cites |-> scdb,
                    self          |-> S7CitationIntegrity_init(fake, scdb) ])

S7SetVerificationSets ==
    /\ api_log # << >>
    /\ \E fake \in FakeCites, scdb \in ScdbCites :
           S7Call([ op            |-> "set_verification_sets",
                    fake_us_cites |-> fake,
                    scdb_us_cites |-> scdb,
                    self          |->
                        S7CitationIntegrity_set_verification_sets(
                            S7Self, fake, scdb) ])

S7ExecuteVerification ==
    /\ api_log # << >>
    /\ \E parsed \in S6Outputs :
       \E eyecite \in EyeciteOutcomes(s6_text_of(parsed)) :
           S7Call([ op      |-> "execute_verification",
                    s6_text |-> s6_text_of(parsed),
                    eyecite |-> eyecite,
                    self    |-> S7Self,
                    ret     |-> S7CitationIntegrity_execute_verification(
                                    S7Self, s6_text_of(parsed), eyecite) ])

\* ChainExecutor(backend, [s6, s7]).execute(instance) with the object as
\* s7: the two iterations of the loop.  parsed is the parsed output of S6,
\* cov what check_coverage returns for the instance, sc what the score()
\* of S6 returns and raw_response what the backend answers to the prompt
\* of S7.
S7ExecuteInChain ==
    /\ api_log # << >>
    /\ \E parsed \in S6Outputs, cov \in BOOLEAN, sc \in ScoreOutcomes,
          raw_response \in S7Responses :
           LET s6 == loop_body(S6Step, << >>, << >>, cov, sc,
                               s7_step_id, s6_step_id)
               s7 == loop_body(S7Step, s6.step_results, s6.key_order, cov,
                               S7CitationIntegrity_scored(raw_response),
                               s7_step_id, s6_step_id)
           IN  S7Call([ op           |-> "execute",
                        s6_parsed    |-> parsed,
                        raw_response |-> raw_response,
                        self         |-> S7Self,
                        s6_result    |-> s6.result,
                        ret          |-> s7.result,
                        step_results |-> s7.step_results ])

\* An S7CitationIntegrity object is constructed, configured and used.
S7Init == Constructed({ << >> }, 0, {})

S7Next ==
    \/ S7Construct
    \/ S7SetVerificationSets
    \/ S7ExecuteVerification
    \/ S7ExecuteInChain

S7Spec == S7Init /\ [][S7Next]_vars

\* The steps of the runs whose dependency chains are checked: the target,
\* a variant of it and the gate, each requiring nothing or one of the
\* others.
DepStepConfigs ==
    { c \in StepConfigs :
        /\ c.variant \in { "", "b" }
        /\ c.requires \in { {}, { "s6" }, { "s6:b" } } }

DepStepLists == UNION { [1..n -> DepStepConfigs] : n \in 0..MaxDepSteps }

DepsInit == Constructed(DepStepLists, 1, {})

DepsSpec == DepsInit /\ [][Next]_vars

\* The concrete chain [S1, S2, S3, S4, S5:cb, S5:rag, S6, S7]: the name,
\* the variant and what requires() returns, of each step.
ConcreteChain ==
    << [ name |-> "s1", variant |-> "", requires |-> {} ],
       [ name |-> "s2", variant |-> "", requires |-> { "s1" } ],
       [ name |-> "s3", variant |-> "", requires |-> { "s1" } ],
       [ name |-> "s4", variant |-> "", requires |-> { "s1" } ],
       [ name |-> "s5", variant |-> "cb", requires |-> { "s1", "s4" } ],
       [ name |-> "s5", variant |-> "rag", requires |-> { "s1", "s4" } ],
       [ name |-> "s6", variant |-> "",
         requires |-> { "s1", "s2", "s3", "s4", "s5:cb" } ],
       [ name |-> "s7", variant |-> "", requires |-> { "s6" } ] >>

\* check_coverage(ctx) of the concrete steps: S5:rag needs the text of both
\* cases, every other step the text of the cited case.
check_coverage(step, instance) ==
    IF step_id(step) = "s5:rag"
    THEN has_cited_text(instance) /\ has_citing_text(instance)
    ELSE has_cited_text(instance)

\* step.parse(raw_response) of the concrete step of that name.
Step_parse(step, raw_response) ==
    CASE step = "s1" -> S1KnownAuthority_parse(raw_response)
      [] step = "s2" -> S2UnknownAuthority_parse(raw_response)
      [] step = "s3" -> S3ValidateAuthority_parse(raw_response)
      [] step = "s4" -> S4FactExtraction_parse(raw_response)
      [] step = "s5" -> _parse_s5_response(raw_response)
      [] step = "s6" -> S6IRACSynthesis_parse(raw_response)
      [] step = "s7" -> S7CitationIntegrity_parse(raw_response)

\* The instances handed to execute(): the cited case with or without its
\* opinion text, and the citing case absent, without or with its text.
Instances ==
    { ChainInstance(pair_id(Cite347, Cite410),
                    CourtCase(Cite347, cited_opinion),
                    citing_case, JNull) :
          cited_opinion \in { JStr(Opinion), JNull },
          citing_case \in { JNull, CourtCase(Cite410, JNull),
                            CourtCase(Cite410, JStr(Opinion)) } }

\* What the backend answers to a prompt.
BackendResponses ==
    { RawEmptyObject, RawNotJson, RawS1Text, RawS1TermHuge, RawS3YearHuge }

\* The instance of the call of execute() in progress.
ChainInstanceOf == api_log[1].instance

\* execute(instance) on the concrete chain, entry.
ChainExecute ==
    /\ pc = "idle"
    /\ calls_left > 0
    /\ calls_left' = calls_left - 1
    /\ \E instance \in Instances :
           api_log' = << [ op |-> "execute", instance |-> instance ] >>
    /\ pc' = "loop"
    /\ pos' = 0
    /\ step_results' = << >>
    /\ key_order' = << >>
    /\ history' = << >>
    /\ UNCHANGED << steps, s7_step_id, s6_step_id, call_history, chain_result,
                    earlier, callers >>

\* One iteration of the loop of execute() on the concrete chain.  The
\* coverage is that of the step on the instance; the backend answers the
\* prompt with any of its responses; an exception raised by parse() leaves
\* execute() (pc "raised") before a result is stored.
ChainExecuteStep ==
    /\ pc = "loop"
    /\ pos < Len(steps)
    /\ \E raw_response \in BackendResponses, sc \in ScoreOutcomes :
        LET step   == current_step(steps, pos)
            cov    == check_coverage(step, ChainInstanceOf)
            called == calls_backend(step, step_results, cov)
            parsed == Step_parse(step_name(step), raw_response)
            body   == loop_body(step, step_results, key_order, cov, sc,
                                s7_step_id, s6_step_id)
        IN  /\ call_history' = IF called
                               THEN Append(call_history, step_id(step))
                               ELSE call_history
            /\ IF called /\ parsed.raised # "None"
               THEN /\ pc' = "raised"
                    /\ UNCHANGED << step_results, key_order, history, pos >>
               ELSE /\ step_results' = body.step_results
                    /\ key_order' = body.key_order
                    /\ history' = Append(history,
                         [ step_id  |-> step_id(step),
                           requires |-> requires(step),
                           cov      |-> cov,
                           calls    |-> step_calls(step, step_results, cov),
                           sent     |-> Len(call_history),
                           before   |-> step_results,
                           result   |-> body.result,
                           voiding  |-> body.voiding ])
                    /\ pos' = pos + 1
                    /\ pc' = pc
    /\ UNCHANGED << steps, s7_step_id, s6_step_id, chain_result, calls_left,
                    earlier, callers, api_log >>

\* An executor over the concrete chain, called once.
ChainInit == Constructed({ ConcreteChain }, 1, {})

ChainNext == ChainExecute \/ ChainExecuteStep \/ Return

ChainSpec == ChainInit /\ [][ChainNext]_vars

\* A call that is not abandoned: the interpreter goes on running execute()
\* and every backend.complete() call returns.
FairInit == Constructed(FairStepLists, 1, {})

FairSpec == FairInit /\ [][Next]_vars /\ WF_vars(Next)

\* ------------------------------------------------------------------------
\* Vocabulary of the properties
\* ------------------------------------------------------------------------

\* The loop iterations made so far.
Processed == 1..Len(history)

\* execute() has returned its outcome.
Returned == pc = "done"

\* The iterations that processed a step with the given id.
RunsOf(sid) == { k \in Processed : history[k].step_id = sid }

\* The last iteration that processed a step with the given id (the one whose
\* result the Context holds).
LastRun(sid) == CHOOSE k \in RunsOf(sid) : \A j \in RunsOf(sid) : j <= k

\* A result of the gate that triggers voiding: status OK and correct = false.
GateFailed(r) == r.status = STATUS_OK /\ ~r.correct

\* A result with which the gate does not trigger voiding.
GateBenign(r) ==
    \/ r.status = STATUS_SKIPPED_COVERAGE
    \/ r.status = STATUS_SKIPPED_DEPENDENCY
    \/ (r.status = STATUS_OK /\ r.correct)

\* Number of iterations in which the voiding assignment was performed.
VoidCount == Cardinality({ k \in Processed : history[k].voiding })

\* Number of steps of the configured list whose id is the gate id.
GateOccurrences ==
    Cardinality({ k \in 1..Len(steps) : step_id(steps[k]) = s7_step_id })

\* ------------------------------------------------------------------------
\* C1
\* ------------------------------------------------------------------------

\* C1 as stated: after execute(), whenever the result recorded under the gate
\* id has status OK and correct = false, the result recorded under the target
\* id has voided = true, whatever the order of gate and target and whatever
\* the status of the target.
C1_AnyOrderAnyStatus ==
    Returned =>
        LET out == chain_result.step_results
        IN  ( /\ s7_step_id \in DOMAIN out
              /\ GateFailed(out[s7_step_id])
              /\ s6_step_id \in DOMAIN out )
            => out[s6_step_id].voided

\* C1 amended: after execute(), whenever the result recorded under the gate
\* id has status OK and correct = false, and the result recorded under the
\* target id has status OK and was recorded before the gate's result, the
\* target's result has voided = true.
C1_GateFailureVoidsEarlierOkTarget ==
    Returned =>
        LET out == chain_result.step_results
        IN  ( /\ s7_step_id \in DOMAIN out
              /\ GateFailed(out[s7_step_id])
              /\ s6_step_id \in DOMAIN out
              /\ out[s6_step_id].status = STATUS_OK
              /\ LastRun(s6_step_id) < LastRun(s7_step_id) )
            => out[s6_step_id].voided

C1_Witness ==
    /\ Returned
    /\ s7_step_id \in DOMAIN chain_result.step_results
    /\ GateFailed(chain_result.step_results[s7_step_id])
    /\ s6_step_id \in DOMAIN chain_result.step_results
    /\ chain_result.step_results[s6_step_id].status = STATUS_OK
    /\ LastRun(s6_step_id) < LastRun(s7_step_id)
    /\ chain_result.step_results[s6_step_id].voided

\* ------------------------------------------------------------------------
\* C2
\* ------------------------------------------------------------------------

\* C2: gate-voiding changes only voided and void_reason of the target
\* result: a voided target carries exactly the status (OK), score, correct
\* flag and other fields with which it was recorded.
C2_VoidingKeepsStatusScoreCorrect ==
    ( /\ s6_step_id \in DOMAIN step_results
      /\ step_results[s6_step_id].voided )
    => LET rec == history[LastRun(s6_step_id)].result
           now == step_results[s6_step_id]
       IN  /\ now.status = STATUS_OK
           /\ now.status = rec.status
           /\ now.score = rec.score
           /\ now.correct = rec.correct
           /\ now = [ rec EXCEPT !.voided = TRUE, !.void_reason = VOID_REASON ]

C2_Witness ==
    /\ Returned
    /\ s6_step_id \in DOMAIN step_results
    /\ step_results[s6_step_id].voided
    /\ step_results[s6_step_id].void_reason = VOID_REASON
    /\ step_results[s6_step_id].score = 1
    /\ step_results[s6_step_id].correct

\* ------------------------------------------------------------------------
\* C3
\* ------------------------------------------------------------------------

\* C3 as stated: if the result recorded under the gate id is
\* SKIPPED_COVERAGE, SKIPPED_DEPENDENCY, or OK with correct = true, then after
\* execute() the target result's voided flag is false and the outcome's
\* voided flag is false.
C3_BenignGateResultMeansNoVoiding ==
    Returned =>
        LET out == chain_result.step_results
        IN  ( /\ s7_step_id \in DOMAIN out
              /\ GateBenign(out[s7_step_id]) )
            => /\ (s6_step_id \in DOMAIN out => ~out[s6_step_id].voided)
               /\ ~chain_result.voided

\* C3 amended: if every result produced under the gate id during the
\* execution is SKIPPED_COVERAGE, SKIPPED_DEPENDENCY, or OK with
\* correct = true, then after execute() the target result's voided flag is
\* false and the outcome's voided flag is false, whatever the other steps did.
C3_BenignGateRunsMeanNoVoiding ==
    Returned =>
        LET out == chain_result.step_results
        IN  ( /\ RunsOf(s7_step_id) # {}
              /\ \A k \in RunsOf(s7_step_id) : GateBenign(history[k].result) )
            => /\ (s6_step_id \in DOMAIN out => ~out[s6_step_id].voided)
               /\ ~chain_result.voided

C3_Witness ==
    /\ Returned
    /\ RunsOf(s7_step_id) # {}
    /\ \A k \in RunsOf(s7_step_id) :
          history[k].result.status = STATUS_SKIPPED_DEPENDENCY
    /\ s6_step_id \in DOMAIN chain_result.step_results
    /\ chain_result.step_results[s6_step_id].status = STATUS_OK
    /\ ~chain_result.step_results[s6_step_id].correct
    /\ ~chain_result.step_results[s6_step_id].voided
    /\ ~chain_result.voided

\* ------------------------------------------------------------------------
\* C4
\* ------------------------------------------------------------------------

C5_VoidingAtMostOnce == VoidCount <= 1

\* C5 amended: within one execute() call the voiding assignment is performed
\* only while a step whose id is the gate id is processed and at most once
\* per such step, hence at most once for every step list in which the gate
\* id occurs at most once.
C5_VoidingAtMostOncePerGateStep ==
    /\ \A k \in Processed : history[k].voiding => history[k].step_id = s7_step_id
    /\ VoidCount <= Cardinality(RunsOf(s7_step_id))
    /\ GateOccurrences <= 1 => VoidCount <= 1

C5_Witness ==
    /\ Returned
    /\ GateOccurrences = 1
    /\ VoidCount = 1
    /\ Len(steps) = MaxSteps

\* ------------------------------------------------------------------------
\* Vocabulary of the dependency properties
\* ------------------------------------------------------------------------

\* The Context as iteration k found it, and as iteration k left it.
Before(k) == history[k].before
After(k) == IF k < Len(history) THEN history[k + 1].before ELSE step_results

\* The result iteration k recorded in the Context for its step.
Recorded(k) == After(k)[history[k].step_id]

\* The ids that had status OK in the Context when iteration k began.
OkBefore(k) ==
    { d \in DOMAIN Before(k) : Before(k)[d].status = STATUS_OK }

\* Position of an id in Python's string order.
Rank(x) == CHOOSE i \in 1..Len(IdOrder) : IdOrder[i] = x

\* seq lists exactly the ids of S, in ascending string order.
IsSortedListOf(seq, S) ==
    /\ { seq[i] : i \in 1..Len(seq) } = S
    /\ \A i, j \in 1..Len(seq) : i < j => Rank(seq[i]) < Rank(seq[j])

\* Iteration k recorded SKIPPED_DEPENDENCY with the exact missing ids.
SkippedForMissing(k) ==
    /\ Recorded(k).status = STATUS_SKIPPED_DEPENDENCY
    /\ Len(Recorded(k).model_errors) = 1
    /\ Recorded(k).model_errors[1][1] = "Missing dependencies: "
    /\ IsSortedListOf(Recorded(k).model_errors[1][2],
                      history[k].requires \ OkBefore(k))

\* The two variants of one logical step, and its bare logical name.
VariantA == "s6:a"
VariantB == "s6:b"
BareName == "s6"

\* ------------------------------------------------------------------------
\* C6
\* ------------------------------------------------------------------------

\* C6: gate-voiding never touches a result other than the one stored under
\* the target id: every result whose key is not the target id has
\* voided = false and void_reason unset, in the Context and in the outcome,
\* the gate's own result included.
C6_OnlyTargetIsEverVoided ==
    /\ \A k \in DOMAIN step_results :
          k # s6_step_id =>
              /\ ~step_results[k].voided
              /\ step_results[k].void_reason = None
    /\ Returned =>
          \A k \in DOMAIN chain_result.step_results :
              k # s6_step_id =>
                  /\ ~chain_result.step_results[k].voided
                  /\ chain_result.step_results[k].void_reason = None

C6_Witness ==
    /\ Returned
    /\ VoidCount >= 1
    /\ DOMAIN chain_result.step_results = { "s6:a", s6_step_id, s7_step_id }
    /\ chain_result.step_results[s6_step_id].voided
    /\ chain_result.step_results["s6:a"].status = STATUS_OK
    /\ ~chain_result.step_results[s7_step_id].voided

\* ------------------------------------------------------------------------
\* C7
\* ------------------------------------------------------------------------

\* C7 as stated: for every step with nonempty requires(), if some required
\* id does not have status OK in the Context when the step is processed, the
\* step is recorded SKIPPED_DEPENDENCY and the reported missing ids are
\* exactly requires() minus the ids with status OK, sorted.
C7_UnmetDependencySkips ==
    \A k \in Processed :
        ( /\ history[k].requires # {}
          /\ ~(history[k].requires \subseteq OkBefore(k)) )
        => SkippedForMissing(k)

\* C7 amended: for every step with nonempty requires() whose check_coverage
\* is true, if some required id does not have status OK in the Context when
\* the step is processed, the step is recorded SKIPPED_DEPENDENCY and the
\* reported missing ids are exactly requires() minus the ids with status OK,
\* sorted.
C7_UnmetDependencySkipsWhenCovered ==
    \A k \in Processed :
        ( /\ history[k].cov
          /\ history[k].requires # {}
          /\ ~(history[k].requires \subseteq OkBefore(k)) )
        => SkippedForMissing(k)

C7_Witness ==
    \E k \in Processed :
        /\ history[k].cov
        /\ history[k].requires = { "nonexistent", "s6" }
        /\ "s6" \in OkBefore(k)
        /\ Recorded(k).status = STATUS_SKIPPED_DEPENDENCY
        /\ Recorded(k).model_errors =
              << <<"Missing dependencies: ", <<"nonexistent">> >> >>

\* ------------------------------------------------------------------------
\* C8
\* ------------------------------------------------------------------------

\* C8: a dependency on id d is satisfied exactly when the result recorded
\* for d has status OK, whatever its correct flag and score: a covered step
\* runs (status OK) if and only if each required id has a recorded result
\* with status OK.
C8_OnlyStatusOkSatisfies ==
    \A k \in Processed :
        history[k].cov =>
            ( Recorded(k).status = STATUS_OK
              <=> \A d \in history[k].requires :
                      /\ d \in DOMAIN Before(k)
                      /\ Before(k)[d].status = STATUS_OK )

C8_Witness ==
    \E k \in Processed :
        /\ history[k].cov
        /\ history[k].requires = { "s6" }
        /\ "s6" \in DOMAIN Before(k)
        /\ Before(k)["s6"].status = STATUS_OK
        /\ ~Before(k)["s6"].correct
        /\ Before(k)["s6"].score = 0
        /\ Recorded(k).status = STATUS_OK

\* ------------------------------------------------------------------------
\* C9
\* ------------------------------------------------------------------------

\* Processing a step with id x leaves the entry of id y as it was.
LeavesEntry(k, y) ==
    /\ (y \in DOMAIN After(k)) <=> (y \in DOMAIN Before(k))
    /\ y \in DOMAIN Before(k) => After(k)[y] = Before(k)[y]

\* The results of the two variants are stored under separate keys.
VariantsStoredSeparately ==
    \A k \in Processed :
        /\ history[k].step_id = VariantA =>
              /\ LeavesEntry(k, VariantB)
              /\ LeavesEntry(k, BareName)
              /\ Recorded(k).step_id = VariantA
        /\ history[k].step_id = VariantB =>
              /\ LeavesEntry(k, VariantA)
              /\ LeavesEntry(k, BareName)
              /\ Recorded(k).step_id = VariantB

\* C9 as stated: a step that requires name:b is SKIPPED_DEPENDENCY when only
\* name:a (or only the bare logical name) has status OK, and the results of
\* name:a and name:b are stored under separate keys without overwriting each
\* other.
C9_VariantsIndependent ==
    /\ \A k \in Processed :
          ( /\ VariantB \in history[k].requires
            /\ VariantB \notin OkBefore(k)
            /\ (VariantA \in OkBefore(k) \/ BareName \in OkBefore(k)) )
          => Recorded(k).status = STATUS_SKIPPED_DEPENDENCY
    /\ VariantsStoredSeparately

\* C9 amended: a step whose check_coverage is true and that requires name:b
\* is SKIPPED_DEPENDENCY when only name:a (or only the bare logical name) has
\* status OK, and the results of name:a and name:b are stored under separate
\* keys without overwriting each other.
C9_VariantsIndependentWhenCovered ==
    /\ \A k \in Processed :
          ( /\ history[k].cov
            /\ VariantB \in history[k].requires
            /\ VariantB \notin OkBefore(k)
            /\ (VariantA \in OkBefore(k) \/ BareName \in OkBefore(k)) )
          => Recorded(k).status = STATUS_SKIPPED_DEPENDENCY
    /\ VariantsStoredSeparately

C9_Witness ==
    \E k \in Processed :
        /\ history[k].cov
        /\ history[k].requires = { VariantB }
        /\ VariantA \in OkBefore(k)
        /\ VariantB \in DOMAIN Before(k)
        /\ VariantB \notin OkBefore(k)
        /\ Before(k)[VariantA] # Before(k)[VariantB]
        /\ Recorded(k).status = STATUS_SKIPPED_DEPENDENCY

\* ------------------------------------------------------------------------
\* C10
\* ------------------------------------------------------------------------

\* C10: every step whose requires() is empty and whose check_coverage is
\* true is recorded with status OK, at any position of the step list and
\* whatever the results of the steps before it.
C10_NoDependenciesCoveredRuns ==
    \A k \in Processed :
        (history[k].requires = {} /\ history[k].cov)
        => Recorded(k).status = STATUS_OK

C10_Witness ==
    \E k \in Processed :
        /\ k = MaxSteps
        /\ history[k].requires = {}
        /\ history[k].cov
        /\ \A j \in 1..(k - 1) : Recorded(j).status # STATUS_OK
        /\ Recorded(k).status = STATUS_OK

\* ------------------------------------------------------------------------
\* C11
\* ------------------------------------------------------------------------

\* The number of prompts the backend had received when iteration k ended.
SentAfter(k) ==
    IF k < Len(history) THEN history[k + 1].sent ELSE Len(call_history)

\* The number of backend.complete() calls made during iteration k.
BackendCalls(k) == SentAfter(k) - history[k].sent

\* The methods a skipped step must not see called.
ExecutionMethods == { "prompt", "complete", "parse", "ground_truth", "score" }

\* The methods called during iteration k.
CallsOf(k) == { history[k].calls[i] : i \in DOMAIN history[k].calls }

\* C11: a step whose check_coverage returns false is recorded with status
\* SKIPPED_COVERAGE, score 0.0 and correct = false, and none of prompt,
\* backend.complete, parse, ground_truth and score is called for it.
C11_UncoveredStepSkippedUntouched ==
    \A k \in Processed :
        ~history[k].cov
        => /\ Recorded(k).status = STATUS_SKIPPED_COVERAGE
           /\ Recorded(k).score = 0
           /\ Recorded(k).correct = FALSE
           /\ CallsOf(k) \cap ExecutionMethods = {}
           /\ BackendCalls(k) = 0

\* An uncovered step whose dependencies are unmet as well is recorded as
\* skipped for coverage.
C11_Witness ==
    \E k \in Processed :
        /\ ~history[k].cov
        /\ ~(history[k].requires \subseteq OkBefore(k))
        /\ Recorded(k).status = STATUS_SKIPPED_COVERAGE
        /\ BackendCalls(k) = 0

\* ------------------------------------------------------------------------
\* C12
\* ------------------------------------------------------------------------

\* The iterations whose step was recorded with status OK.
OkRuns == { k \in Processed : Recorded(k).status = STATUS_OK }

\* The step ids of the list are pairwise distinct.
DistinctIds ==
    \A i, j \in 1..Len(steps) :
        step_id(steps[i]) = step_id(steps[j]) => i = j

StillHeld(k) == LastRun(history[k].step_id) = k

\* The id d belongs to a step placed after position k of the list.
PlacedLater(d, k) == \E j \in (k + 1)..Len(steps) : step_id(steps[j]) = d

\* The id d belongs to a step placed before position k of the list.
PlacedEarlier(d, k) == \E i \in 1..(k - 1) : step_id(steps[i]) = d

\* The result of iteration k is, and remains, SKIPPED_DEPENDENCY.
StaysSkippedForDependency(k) ==
    /\ Recorded(k).status = STATUS_SKIPPED_DEPENDENCY
    /\ StillHeld(k)
       => /\ step_results[history[k].step_id].status
               = STATUS_SKIPPED_DEPENDENCY
          /\ Returned
             => chain_result.step_results[history[k].step_id].status
                  = STATUS_SKIPPED_DEPENDENCY

\* C13 as stated: a step whose required id belongs to a step placed later
\* in the list is recorded SKIPPED_DEPENDENCY and stays so.
C13_LaterDependencySkips ==
    \A k \in Processed :
        \A d \in history[k].requires :
            PlacedLater(d, k) => StaysSkippedForDependency(k)

\* C13: the steps are processed in list order without reordering: a step
\* whose check_coverage is true and whose required id belongs only to steps
\* placed later in the list is recorded SKIPPED_DEPENDENCY, and stays so
\* even though the later step then runs OK.
C13_OnlyLaterDependencySkipsWhenCovered ==
    \A k \in Processed :
        /\ history[k].step_id = step_id(steps[k])
        /\ history[k].requires = requires(steps[k])
        /\ \A d \in history[k].requires :
              (history[k].cov /\ PlacedLater(d, k) /\ ~PlacedEarlier(d, k))
              => StaysSkippedForDependency(k)

\* The dependency placed right after its dependent runs OK; the dependent
\* is SKIPPED_DEPENDENCY in the outcome.
C13_Witness ==
    /\ Returned
    /\ \E k \in Processed : \E d \in history[k].requires :
          /\ k + 1 \in Processed
          /\ history[k].cov
          /\ ~PlacedEarlier(d, k)
          /\ history[k + 1].step_id = d
          /\ Recorded(k + 1).status = STATUS_OK
          /\ StillHeld(k)
          /\ chain_result.step_results[history[k].step_id].status
               = STATUS_SKIPPED_DEPENDENCY

\* ------------------------------------------------------------------------
\* C14
\* ------------------------------------------------------------------------

\* Every configured step was processed, in order, and the outcome holds a
\* result under the id of each, and under no other id.
OutcomeCoversAllSteps ==
    /\ Len(history) = Len(steps)
    /\ \A k \in 1..Len(steps) :
          /\ history[k].step_id = step_id(steps[k])
          /\ step_id(steps[k]) \in DOMAIN chain_result.step_results
    /\ DOMAIN chain_result.step_results
         = { step_id(steps[k]) : k \in 1..Len(steps) }

ExecutionOrder == [ k \in 1..Len(history) |-> history[k].step_id ]

\* A sequence without the repetitions of its elements: each element stays
\* at its first place.
RECURSIVE FirstOccurrences(_)
FirstOccurrences(seq) ==
    IF seq = << >>
    THEN << >>
    ELSE LET init == FirstOccurrences(SubSeq(seq, 1, Len(seq) - 1))
             x    == seq[Len(seq)]
         IN  IF \E i \in DOMAIN init : init[i] = x
             THEN init
             ELSE Append(init, x)

\* The steps are taken in the caller's order, each seeing the Context that
\* already holds the result of the step before it.
ProcessedSequentially ==
    \A k \in Processed :
        /\ history[k].step_id = step_id(steps[k])
        /\ k = 1 => Before(k) = << >>
        /\ k < Len(history)
           => /\ history[k].step_id \in DOMAIN Before(k + 1)
              /\ Before(k + 1)[history[k].step_id] = history[k].result

\* C15 as stated: the steps are processed sequentially in the caller's
\* order and the key order of the outcome's mapping is the order in which
\* the steps were executed.
C15_KeyOrderIsExecutionOrder ==
    /\ ProcessedSequentially
    /\ Returned => chain_result.key_order = ExecutionOrder

\* C15: the steps are processed sequentially in the caller's order, and the
\* key order of the outcome's mapping is the order in which the step ids
\* were first executed: the execution order itself when the ids are
\* pairwise distinct.
C15_KeyOrderIsFirstExecutionOrder ==
    /\ ProcessedSequentially
    /\ Returned
       => /\ chain_result.key_order = FirstOccurrences(ExecutionOrder)
          /\ DistinctIds => chain_result.key_order = ExecutionOrder

\* An id executed first and third: its key stays first in the outcome.
C15_Witness ==
    /\ Returned
    /\ Len(history) = 3
    /\ history[1].step_id = history[3].step_id
    /\ history[2].step_id # history[1].step_id
    /\ chain_result.key_order = << history[1].step_id, history[2].step_id >>

\* ------------------------------------------------------------------------
\* C16
\* ------------------------------------------------------------------------

\* The Context and its key order that n iterations of the loop produce for
\* a call on its own: started from an empty Context and given only the step
\* list, the gate configuration and what the call itself received, that is
\* the coverage of its instance and the scores of the responses (hist).
RECURSIVE RunAlone(_, _)
RunAlone(hist, n) ==
    IF n = 0
    THEN [ step_results |-> << >>, key_order |-> << >> ]
    ELSE LET prev == RunAlone(hist, n - 1)
             body == loop_body(steps[n], prev.step_results, prev.key_order,
                               hist[n].cov,
                               << hist[n].result.score, hist[n].result.correct >>,
                               s7_step_id, s6_step_id)
         IN  [ step_results |-> body.step_results,
               key_order    |-> body.key_order ]

\* The ids recorded OK by the iterations of the current call before k.
OwnOkBefore(k) ==
    { d \in { history[j].step_id : j \in 1..(k - 1) } :
        \E j \in 1..(k - 1) :
            /\ history[j].step_id = d
            /\ history[j].result.status = STATUS_OK
            /\ \A i \in (j + 1)..(k - 1) : history[i].step_id # d }

\* A result is the one an iteration of the current call recorded, up to its
\* voiding fields.
OwnResult(r, k) ==
    /\ r.step_id = history[k].step_id
    /\ [ r EXCEPT !.voided = FALSE, !.void_reason = None ] = history[k].result

\* Every result of the Context was recorded by the current call, and a
\* voided one was voided by the current call.
OwnResultsOnly(results) ==
    \A d \in DOMAIN results :
        /\ RunsOf(d) # {}
        /\ OwnResult(results[d], LastRun(d))
        /\ results[d].voided
           => \E g \in Processed : g > LastRun(d) /\ history[g].voiding

\* C16: every execute() call starts from an empty Context: in any sequence
\* of calls on one executor, no result of an earlier call satisfies a
\* dependency, is voided or appears in the outcome of a later call, and
\* the outcome of a call is the one the call produces on its own from its
\* instance, the step list and the backend's responses.
C16_CallsStartFreshAndAreIndependent ==
    /\ (pc = "loop" /\ pos = 0) => step_results = << >> /\ key_order = << >>
    /\ pc \in { "loop", "done" }
       => /\ OwnResultsOnly(step_results)
          /\ \A k \in Processed :
                Recorded(k).status = STATUS_OK
                => history[k].requires \subseteq OwnOkBefore(k)
          /\ LET alone == RunAlone(history, pos)
             IN  /\ step_results = alone.step_results
                 /\ key_order = alone.key_order
    /\ Returned
       => /\ OwnResultsOnly(chain_result.step_results)
          /\ LET alone == RunAlone(history, Len(steps))
             IN  chain_result = _build_chain_result(alone.step_results,
                                                    alone.key_order, s7_step_id)

\* A second call whose step is skipped for a dependency that the first call
\* had recorded OK, and whose outcome leaves the target unvoided although
\* the first call's outcome had it voided.
C16_Witness ==
    /\ Returned
    /\ Len(earlier) = 1
    /\ earlier[1].voided
    /\ ~chain_result.voided
    /\ \E k \in Processed : \E d \in history[k].requires :
          /\ history[k].cov
          /\ d \in DOMAIN earlier[1].step_results
          /\ earlier[1].step_results[d].status = STATUS_OK
          /\ Recorded(k).status = STATUS_SKIPPED_DEPENDENCY

\* ------------------------------------------------------------------------
\* C17
\* ------------------------------------------------------------------------

\* The frame of a concurrent call holds what the call produces when it runs
\* alone on the same instance with the same responses: the same results
\* (statuses, voided flags), the same key order and, once it has returned,
\* the same outcome.
AsAlone(frame) ==
    LET alone == RunAlone(frame.history, frame.pos)
    IN  /\ frame.step_results = alone.step_results
        /\ frame.key_order = alone.key_order
        /\ frame.pc = "done"
           => /\ frame.pos = Len(steps)
              /\ frame.outcome =
                   << _build_chain_result(alone.step_results, alone.key_order,
                                          s7_step_id) >>

\* C17: when two execute() calls on different instances run concurrently
\* on one executor with a stateless backend, then under every interleaving
\* of their steps each call produces the outcome (statuses, voided flags,
\* key order) it produces when it runs alone.
C17_ConcurrentCallsAsAlone ==
    \A t \in DOMAIN callers :
        callers[t].pc \in { "loop", "done" } => AsAlone(callers[t])

\* Both calls are inside their loops: one has had its target voided by its
\* gate, the other holds its own target, OK and not voided.
C17_Witness ==
    /\ DOMAIN callers = Callers
    /\ \E a, b \in Callers :
          /\ a # b
          /\ callers[a].pc = "loop" /\ callers[a].pos = 2
          /\ callers[b].pc = "loop" /\ callers[b].pos = 1
          /\ s6_step_id \in DOMAIN callers[a].step_results
          /\ callers[a].step_results[s6_step_id].voided
          /\ s6_step_id \in DOMAIN callers[b].step_results
          /\ callers[b].step_results[s6_step_id].status = STATUS_OK
          /\ ~callers[b].step_results[s6_step_id].voided

\* ------------------------------------------------------------------------
\* C18
\* ------------------------------------------------------------------------

\* The calls made directly so far.
ApiCalls == DOMAIN api_log

\* The Context as the i-th direct call left it.
CtxAfter(i) ==
    IF i < Len(api_log) THEN api_log[i + 1].before ELSE step_results

\* C18: constructing a StepResult with a status other than OK,
\* SKIPPED_COVERAGE or SKIPPED_DEPENDENCY raises an error and creates no
\* result, so every result of a Context carries one of the three statuses.
C18_InvalidStatusFailsConstruction ==
    /\ \A i \in ApiCalls :
          api_log[i].op = "StepResult"
          => /\ api_log[i].raised
                <=> api_log[i].status \notin
                      { "OK", "SKIPPED_COVERAGE", "SKIPPED_DEPENDENCY" }
             /\ api_log[i].raised => CtxAfter(i) = api_log[i].before
             /\ ~api_log[i].raised
                => /\ api_log[i].step_id \in DOMAIN CtxAfter(i)
                   /\ CtxAfter(i)[api_log[i].step_id].status
                        = api_log[i].status
    /\ \A d \in DOMAIN step_results :
          step_results[d].status \in
              { "OK", "SKIPPED_COVERAGE", "SKIPPED_DEPENDENCY" }

\* After a result was stored, a construction with the status "ok" raised
\* and left the Context as it was.
C18_Witness ==
    /\ Len(api_log) = 2
    /\ api_log[1].op = "StepResult" /\ ~api_log[1].raised
    /\ api_log[2].op = "StepResult" /\ api_log[2].raised
    /\ api_log[2].status = "ok"
    /\ api_log[2].step_id # api_log[1].step_id
    /\ DOMAIN step_results = { api_log[1].step_id }

\* ------------------------------------------------------------------------
\* C19
\* ------------------------------------------------------------------------

\* The results of a Context whose logical step name is the given one.
VariantsOf(results, name) ==
    { d \in DOMAIN results : results[d].step = name }

\* C19 as stated: has_step(name) is true exactly when some variant of the
\* name is recorded with status OK.
C19_HasStepIffSomeVariantOk ==
    \A i \in ApiCalls :
        api_log[i].op = "has_step"
        => (api_log[i].ret
            <=> \E d \in VariantsOf(api_log[i].before, api_log[i].step_name) :
                    api_log[i].before[d].status = STATUS_OK)

\* C19: has_step(name) is true exactly when some result with that logical
\* step name is recorded in the Context, whatever its status; hence it is
\* true when some variant has status OK, and false when none is recorded.
C19_HasStepIffSomeVariantRecorded ==
    \A i \in ApiCalls :
        api_log[i].op = "has_step"
        => /\ api_log[i].ret
              <=> VariantsOf(api_log[i].before, api_log[i].step_name) # {}
           /\ CtxAfter(i) = api_log[i].before

\* has_step returned true for a name whose only recorded variant was
\* skipped.
C19_Witness ==
    \E i \in ApiCalls :
        /\ api_log[i].op = "has_step"
        /\ api_log[i].ret
        /\ VariantsOf(api_log[i].before, api_log[i].step_name) # {}
        /\ \A d \in VariantsOf(api_log[i].before, api_log[i].step_name) :
              api_log[i].before[d].status # STATUS_OK

\* ------------------------------------------------------------------------
\* C20
\* ------------------------------------------------------------------------

\* C20: for every concrete step S1 to S7, score(payload, ground_truth)
\* returns (0.0, false) whenever the payload carries an "errors" key,
\* whatever its other keys.
C20_ErrorsPayloadScoresZero ==
    \A i \in ApiCalls :
        (api_log[i].op = "score" /\ "errors" \in DOMAIN api_log[i].parsed)
        => api_log[i].ret = << Zero, FALSE >>

\* S7 scored a payload that carries "errors" with (1.0, true).
C20_Witness ==
    \E i \in ApiCalls :
        /\ api_log[i].op = "score"
        /\ api_log[i].step = "s7"
        /\ "errors" \in DOMAIN api_log[i].parsed
        /\ api_log[i].ret = << One, TRUE >>

\* ------------------------------------------------------------------------
\* C21
\* ------------------------------------------------------------------------

\* Two score() calls on the same step with equal arguments: the second one
\* repeats the first on the same two dict objects, or the arguments of the
\* two are equal dicts.
EqualArguments(i, j) ==
    /\ api_log[i].op = "score"
    /\ api_log[j].op = "score"
    /\ api_log[i].step = api_log[j].step
    /\ \/ j = i + 1 /\ api_log[j].again > 0
       \/ /\ DOMAIN api_log[i].parsed = DOMAIN api_log[j].parsed
          /\ "metrics" \notin DOMAIN api_log[i].parsed
          /\ api_log[i].parsed = api_log[j].parsed
          /\ api_log[i].ground_truth = api_log[j].ground_truth

\* Two calls with equal arguments return equal (score, correct) pairs.
EqualArgumentsEqualReturns ==
    \A i \in ApiCalls : \A j \in ApiCalls :
        EqualArguments(i, j) => api_log[i].ret = api_log[j].ret

\* C21: for every concrete step, score(payload, ground_truth) is pure: it
\* leaves the payload map and the ground-truth map unchanged, and two calls
\* with equal arguments return equal (score, correct) pairs.
C21_ScoreIsPure ==
    /\ \A i \in ApiCalls :
          api_log[i].op = "score"
          => /\ api_log[i].parsed_after = api_log[i].parsed
             /\ api_log[i].ground_truth_after = api_log[i].ground_truth
    /\ EqualArgumentsEqualReturns

\* C21, amended: score(payload, ground_truth) leaves the ground-truth map
\* unchanged; the score() of every step other than S2 leaves the payload
\* unchanged, and the score() of S2 changes at most the "metrics" entry of
\* the payload; two calls with equal arguments return equal
\* (score, correct) pairs.
C21_ScoreChangesOnlyS2Metrics ==
    /\ \A i \in ApiCalls :
          api_log[i].op = "score"
          => /\ api_log[i].ground_truth_after = api_log[i].ground_truth
             /\ api_log[i].step # "s2"
                  => api_log[i].parsed_after = api_log[i].parsed
             /\ DOMAIN api_log[i].parsed_after
                  \subseteq (DOMAIN api_log[i].parsed) \cup { "metrics" }
             /\ \A k \in (DOMAIN api_log[i].parsed) \ { "metrics" } :
                  /\ k \in DOMAIN api_log[i].parsed_after
                  /\ api_log[i].parsed_after[k] = api_log[i].parsed[k]
    /\ EqualArgumentsEqualReturns

\* S2 scored the same payload against the same ground truth twice, found
\* the true citation in it and stored "metrics" in the payload.
C21_Witness ==
    \E i \in ApiCalls : \E j \in ApiCalls :
        /\ j = i + 1
        /\ EqualArguments(i, j)
        /\ api_log[i].step = "s2"
        /\ api_log[i].ret[2]
        /\ "metrics" \notin DOMAIN api_log[i].parsed
        /\ "metrics" \in DOMAIN api_log[i].parsed_after

\* ------------------------------------------------------------------------
\* C22
\* ------------------------------------------------------------------------

\* The response, stripped and taken out of its code block, is not a JSON
\* object.
Malformed(raw_response) ==
    LET loaded == load_response(raw_response)
    IN  loaded.raised # "None" \/ loaded.value.t # "dict"

\* C22: for every concrete step (S1 to S7), parse(raw_text) returns a
\* payload map for every input string and never raises; when the input is
\* malformed (not a JSON object of the expected shape) the returned payload
\* carries an "errors" list.
C22_ParseNeverRaisesErrorsOnMalformed ==
    \A i \in ApiCalls :
        api_log[i].op = "parse"
        => /\ api_log[i].raised = "None"
           /\ Malformed(api_log[i].raw_response)
                => "errors" \in DOMAIN api_log[i].ret

\* The parse() of S1 was handed a JSON object whose term is a number too
\* large for a float, and left with OverflowError.
C22_Witness ==
    \E i \in ApiCalls :
        /\ api_log[i].op = "parse"
        /\ api_log[i].step = "s1"
        /\ api_log[i].raw_response = RawS1TermHuge
        /\ api_log[i].raised = "OverflowError"

\* ------------------------------------------------------------------------
\* C23
\* ------------------------------------------------------------------------

\* The results of the Context after the k-th iteration of the loop.
ResultsAfter(k) ==
    IF k < Len(history) THEN history[k + 1].before ELSE step_results

\* The result without its two voiding fields.
WithoutVoiding(result) ==
    [ result EXCEPT !.voided = FALSE, !.void_reason = None ]

\* The k-th iteration left the result stored under sid as it was, but for
\* its voiding fields, and these changed only if the iteration ran the gate
\* step and its voiding call wrote to the target.
ChangedOnlyByVoiding(k, sid) ==
    LET old == history[k].before[sid]
        new == ResultsAfter(k)[sid]
    IN  /\ WithoutVoiding(new) = WithoutVoiding(old)
        /\ (new.voided # old.voided \/ new.void_reason # old.void_reason)
             => /\ is_gate_step(history[k].step_id, s7_step_id)
                /\ history[k].voiding
                /\ sid = s6_step_id

\* C23: once a step result has been stored in the Context, no later
\* operation of the same execute() call changes any of its fields other
\* than voided and void_reason, and those two fields are changed only by
\* the gate-voiding operation of the Executor.  (An iteration that runs a
\* step id again stores a new result object under that id; the results
\* stored under the other ids are the ones that could have been changed.)
C23_StoredResultsChangeOnlyByVoiding ==
    /\ \A k \in Processed :
          \A sid \in DOMAIN history[k].before :
              /\ sid \in DOMAIN ResultsAfter(k)
              /\ sid # history[k].step_id => ChangedOnlyByVoiding(k, sid)
    /\ Returned => chain_result.step_results = step_results

\* The gate voided the target stored by an earlier iteration, and the call
\* has returned.
C23_Witness ==
    /\ Returned
    /\ \E k \in Processed :
          /\ history[k].voiding
          /\ s6_step_id \in DOMAIN history[k].before
          /\ ~history[k].before[s6_step_id].voided
          /\ ResultsAfter(k)[s6_step_id].voided
          /\ step_results[s6_step_id].score = history[k].before[s6_step_id].score

\* ------------------------------------------------------------------------
\* C24
\* ------------------------------------------------------------------------

\* C24: verify(citation, fakeSet, trueSet) classifies with
\* inScope = (canonical(citation) in trueSet),
\* isFake = (canonical(citation) in fakeSet) and
\* exists = inScope and not isFake; in particular a citation whose
\* canonical form is in both sets has exists = false, and one in neither
\* set has exists = false.
C24_ExistsIffInScopeAndNotFake ==
    \A i \in ApiCalls :
        api_log[i].op = "verify_citation"
        => LET call      == api_log[i]
               canonical == canonicalize_cite(call.cite)
           IN  /\ call.ret.in_scdb = (canonical \in call.scdb_us_cites)
               /\ call.ret.is_fake = (canonical \in call.fake_us_cites)
               /\ call.ret.exists = (call.ret.in_scdb /\ ~call.ret.is_fake)
               /\ canonical \in call.fake_us_cites \cap call.scdb_us_cites
                    => ~call.ret.exists
               /\ canonical \notin call.fake_us_cites \cup call.scdb_us_cites
                    => ~call.ret.exists

\* A citation in the spaced spelling was verified against a fake set and a
\* true set that both hold its canonical form, and was classified as not
\* existing.
C24_Witness ==
    \E i \in ApiCalls :
        /\ api_log[i].op = "verify_citation"
        /\ api_log[i].cite = Cite347Spaced
        /\ canonicalize_cite(Cite347) \in api_log[i].fake_us_cites
        /\ canonicalize_cite(Cite347) \in api_log[i].scdb_us_cites
        /\ api_log[i].ret.in_scdb
        /\ api_log[i].ret.is_fake
        /\ ~api_log[i].ret.exists

\* ------------------------------------------------------------------------
\* C25
\* ------------------------------------------------------------------------

\* C25: verifyAll(citations, fakeSet, trueSet) returns one classification
\* per input citation, in input order, and allValid equal to the logical
\* AND of their exists flags: true for the empty list, and false as soon as
\* one citation has exists = false.
C25_AllValidIsConjunction ==
    \A i \in ApiCalls :
        api_log[i].op = "verify_all_citations"
        => LET call      == api_log[i]
               results   == call.ret[1]
               all_valid == call.ret[2]
           IN  /\ Len(results) = Len(call.citations)
               /\ \A k \in DOMAIN results :
                    /\ results[k].cite = call.citations[k]
                    /\ results[k].exists =
                         /\ canonicalize_cite(call.citations[k])
                                \in call.scdb_us_cites
                         /\ canonicalize_cite(call.citations[k])
                                \notin call.fake_us_cites
               /\ all_valid = (\A k \in DOMAIN results : results[k].exists)
               /\ call.citations = << >> => all_valid

\* Two citations were verified, the first does not exist and the second
\* does, and allValid is false.
C25_Witness ==
    \E i \in ApiCalls :
        /\ api_log[i].op = "verify_all_citations"
        /\ Len(api_log[i].citations) = 2
        /\ ~api_log[i].ret[1][1].exists
        /\ api_log[i].ret[1][2].exists
        /\ ~api_log[i].ret[2]

\* ------------------------------------------------------------------------
\* C26
\* ------------------------------------------------------------------------

\* The citation-shaped substrings of the text, from left to right, each
\* with its whitespace runs collapsed.
CitationShaped(text) == cleaned_matches(findall(text, 1))

\* The position, among the citation-shaped substrings, of the first one
\* with the canonical form (0 when there is none).
FirstWithCanonical(found, canonical) ==
    LET at == { k \in DOMAIN found : canonicalize_cite(found[k]) = canonical }
    IN  IF at = {} THEN 0 ELSE CHOOSE k \in at : \A j \in at : k <= j

\* C26: extract(text) returns the citation-shaped substrings of the text in
\* order of first occurrence, de-duplicated by canonical form: no two
\* entries of the returned list have the same canonical form, and for each
\* canonical form the entry kept is its first occurrence in the text.
C26_ExtractDeduplicatesByCanonicalForm ==
    \A i \in ApiCalls :
        api_log[i].op = "extract_citations"
        => LET ret   == api_log[i].ret
               found == CitationShaped(api_log[i].text)
               first(a) == FirstWithCanonical(found,
                                              canonicalize_cite(ret[a]))
           IN  /\ \A a \in DOMAIN ret : \A b \in DOMAIN ret :
                    a # b
                    => canonicalize_cite(ret[a]) # canonicalize_cite(ret[b])
               /\ \A a \in DOMAIN ret :
                    first(a) # 0 /\ ret[a] = found[first(a)]
               /\ \A a \in DOMAIN ret : \A b \in DOMAIN ret :
                    a < b => first(a) < first(b)
               /\ \A k \in DOMAIN found :
                    \E a \in DOMAIN ret :
                        canonicalize_cite(ret[a]) = canonicalize_cite(found[k])

\* With eyecite installed, extract_citations returned a citation that
\* occurs twice in the text twice.
C26_Witness ==
    \E i \in ApiCalls :
        /\ api_log[i].op = "extract_citations"
        /\ api_log[i].text = TextRepeated
        /\ api_log[i].eyecite.installed
        /\ Len(api_log[i].ret) = 3
        /\ api_log[i].ret[1] = api_log[i].ret[3]

\* Without eyecite, extract_citations de-duplicates by canonical form.
C26_HoldsWithoutEyecite ==
    \A i \in ApiCalls :
        (api_log[i].op = "extract_citations" /\ ~api_log[i].eyecite.installed)
        => LET ret   == api_log[i].ret
               found == CitationShaped(api_log[i].text)
           IN  /\ \A a \in DOMAIN ret : \A b \in DOMAIN ret :
                    a # b
                    => canonicalize_cite(ret[a]) # canonicalize_cite(ret[b])
               /\ \A a \in DOMAIN ret :
                    ret[a] = found[FirstWithCanonical(found,
                                       canonicalize_cite(ret[a]))]

\* ------------------------------------------------------------------------
\* C27
\* ------------------------------------------------------------------------

UsKey(volume, page) == volume \o << "_", "u", "s", "_" >> \o page

\* C27: canonicalize_cite maps the spaced and the compact spelling of the
\* reporter to the same key: for all numbers v and p, the calls on
\* "v U. S. p" and on "v U.S. p" both return "v_us_p".
C27_SpacedAndCompactGiveTheSameKey ==
    \A i \in ApiCalls :
        api_log[i].op = "canonicalize_cite"
        => \A v \in Numbers, p \in Numbers :
               api_log[i].cite \in { ReporterSpaced(v, p),
                                     ReporterCompact(v, p) }
               => api_log[i].ret = UsKey(v, p)

\* canonicalize_cite was called on a spaced spelling and returned the key
\* of the compact one.
C27_Witness ==
    \E i \in ApiCalls :
        /\ api_log[i].op = "canonicalize_cite"
        /\ api_log[i].cite = ReporterSpaced(<< "3", "4" >>, << "4", "7" >>)
        /\ api_log[i].ret = << "3", "4", "_", "u", "s", "_", "4", "7" >>
        /\ api_log[i].ret = canonicalize_cite(
               ReporterCompact(<< "3", "4" >>, << "4", "7" >>))

\* ------------------------------------------------------------------------
\* C28
\* ------------------------------------------------------------------------

\* Punctuation marks other than the separator "_".
PunctuationMarks == { ".", ",", ":", ";", "-", "(", ")", "'" }

IsUpper(c) == \E j \in DOMAIN UpperLetters : UpperLetters[j] = c

Count(s, c) == Cardinality({ k \in DOMAIN s : s[k] = c })

\* C28 as stated: no result of canonicalize_cite contains a whitespace
\* character, a punctuation mark or an uppercase letter.
C28_NoWhitespacePunctuationUppercase ==
    \A i \in ApiCalls :
        api_log[i].op = "canonicalize_cite"
        => \A k \in DOMAIN api_log[i].ret :
               /\ api_log[i].ret[k] \notin Whitespace
               /\ api_log[i].ret[k] \notin PunctuationMarks
               /\ ~IsUpper(api_log[i].ret[k])

\* C28: no result of canonicalize_cite contains a blank, a period or an
\* uppercase letter; any other whitespace character and any other
\* punctuation mark of the input stays in the result.
C28_NoBlankPeriodUppercase ==
    \A i \in ApiCalls :
        api_log[i].op = "canonicalize_cite"
        => /\ \A k \in DOMAIN api_log[i].ret :
                /\ api_log[i].ret[k] # " "
                /\ api_log[i].ret[k] # "."
                /\ ~IsUpper(api_log[i].ret[k])
           /\ \A c \in (Whitespace \cup PunctuationMarks) \ { " ", "." } :
                Count(api_log[i].ret, c) = Count(api_log[i].cite, c)

\* canonicalize_cite was called on a string with an uppercase letter, a
\* period, a blank and a comma, and returned the lowercase letter, the
\* separator and the comma.
C28_Witness ==
    \E i \in ApiCalls :
        /\ api_log[i].op = "canonicalize_cite"
        /\ api_log[i].cite = << "U", ".", " ", "," >>
        /\ api_log[i].ret = << "u", "_", "," >>

\* ------------------------------------------------------------------------
\* C29
\* ------------------------------------------------------------------------

\* C29: canonicalize_cite is idempotent: called on what it returned, it
\* returns its argument.
C29_CanonicalizeIsIdempotent ==
    \A i \in ApiCalls :
        (/\ i + 1 \in ApiCalls
         /\ api_log[i].op = "canonicalize_cite"
         /\ api_log[i + 1].op = "canonicalize_cite"
         /\ api_log[i + 1].cite = api_log[i].ret)
        => api_log[i + 1].ret = api_log[i].ret

\* canonicalize_cite was called on a citation and then on the key it
\* returned, and returned that key again.
C29_Witness ==
    \E i \in ApiCalls :
        /\ i + 1 \in ApiCalls
        /\ api_log[i].op = "canonicalize_cite"
        /\ api_log[i].cite = Cite347Spaced
        /\ api_log[i].ret = Key347
        /\ api_log[i + 1].op = "canonicalize_cite"
        /\ api_log[i + 1].cite = Key347
        /\ api_log[i + 1].ret = Key347

\* ------------------------------------------------------------------------
\* C30
\* ------------------------------------------------------------------------

\* The ids are the namespace, the canonical citations and the term joined
\* by "::", the cited citation before the citing one.
IdFormats ==
    \A i \in ApiCalls :
        /\ api_log[i].op = "case_id"
           => api_log[i].ret =
                  Scotus \o DoubleColon
                      \o canonicalize_cite(api_log[i].us_cite)
                      \o DoubleColon \o int_str(api_log[i].term)
        /\ api_log[i].op = "pair_id"
           => api_log[i].ret =
                  Pair \o DoubleColon
                      \o canonicalize_cite(api_log[i].cited_us_cite)
                      \o DoubleColon
                      \o canonicalize_cite(api_log[i].citing_us_cite)

\* Calls with equal canonical citations (and equal term) return the same id.
EqualCanonicalEqualId ==
    \A i \in ApiCalls, j \in ApiCalls :
        /\ (/\ api_log[i].op = "case_id"
            /\ api_log[j].op = "case_id"
            /\ canonicalize_cite(api_log[i].us_cite)
                   = canonicalize_cite(api_log[j].us_cite)
            /\ api_log[i].term = api_log[j].term)
           => api_log[i].ret = api_log[j].ret
        /\ (/\ api_log[i].op = "pair_id"
            /\ api_log[j].op = "pair_id"
            /\ canonicalize_cite(api_log[i].cited_us_cite)
                   = canonicalize_cite(api_log[j].cited_us_cite)
            /\ canonicalize_cite(api_log[i].citing_us_cite)
                   = canonicalize_cite(api_log[j].citing_us_cite))
           => api_log[i].ret = api_log[j].ret

\* Call j is pair_id with the two citations of call i swapped.
Swapped(i, j) ==
    /\ api_log[i].op = "pair_id"
    /\ api_log[j].op = "pair_id"
    /\ api_log[j].cited_us_cite = api_log[i].citing_us_cite
    /\ api_log[j].citing_us_cite = api_log[i].cited_us_cite

HasColon(s) == \E k \in DOMAIN s : s[k] = ":"

\* C30 as stated: the formats hold, equal canonical citations give equal
\* ids, and swapping cited and citing gives a different pair id whenever
\* the canonical forms of the two differ.
C30_SwapAlwaysChangesPairId ==
    /\ IdFormats
    /\ EqualCanonicalEqualId
    /\ \A i \in ApiCalls, j \in ApiCalls :
           (/\ Swapped(i, j)
            /\ canonicalize_cite(api_log[i].cited_us_cite)
                   # canonicalize_cite(api_log[i].citing_us_cite))
           => api_log[i].ret # api_log[j].ret

\* C30: the formats hold, equal canonical citations give equal ids, and
\* swapping cited and citing gives a different pair id when the canonical
\* forms of the two differ and neither contains a colon.
C30_SwapChangesPairIdWithoutColons ==
    /\ IdFormats
    /\ EqualCanonicalEqualId
    /\ \A i \in ApiCalls, j \in ApiCalls :
           (/\ Swapped(i, j)
            /\ canonicalize_cite(api_log[i].cited_us_cite)
                   # canonicalize_cite(api_log[i].citing_us_cite)
            /\ ~HasColon(canonicalize_cite(api_log[i].cited_us_cite))
            /\ ~HasColon(canonicalize_cite(api_log[i].citing_us_cite)))
           => api_log[i].ret # api_log[j].ret

\* pair_id was called on two citations and then on the two swapped, and
\* returned two different ids.
C30_Witness ==
    \E i \in ApiCalls, j \in ApiCalls :
        /\ Swapped(i, j)
        /\ api_log[i].cited_us_cite = Cite347
        /\ api_log[i].citing_us_cite = Cite410
        /\ api_log[i].ret = Pair \o DoubleColon \o Key347 \o DoubleColon
                                \o canonicalize_cite(Cite410)
        /\ api_log[i].ret # api_log[j].ret

\* ------------------------------------------------------------------------
\* C31
\* ------------------------------------------------------------------------

\* The citations the rows of a table hold in the given column.
CitationsOf(rows, column) ==
    { py_str(rows[k][column]) :
          k \in { j \in DOMAIN rows : ~no_citation(rows[j][column]) } }

SameCanonical(a, b) == canonicalize_cite(a) = canonicalize_cite(b)

BuildCalls == { i \in ApiCalls : api_log[i].op = "_build_instance_from_row" }

\* C31: the builder resolves the cited and the citing citation of an edge
\* whenever the case index (and the overrule index) holds an entry whose
\* citation has the same canonical form.
C31_JoinsGoThroughCanonicalize ==
    \A i \in BuildCalls :
        LET call   == api_log[i]
            cases  == CitationsOf(call.scdb, "usCite")
            over   == CitationsOf(call.overruled, "overruled_case_us_id")
            cited  == call.row.cited_case_us_cite
            citing == call.row.citing_case_us_cite
        IN  ~no_citation(cited)
            => /\ (\E c \in cases : SameCanonical(c, py_str(cited)))
                  => call.ret.t = "ChainInstance"
               /\ (/\ call.ret.t = "ChainInstance"
                   /\ ~no_citation(citing)
                   /\ \E c \in cases : SameCanonical(c, py_str(citing)))
                  => call.ret.citing_case.t = "CourtCase"
               /\ (/\ call.ret.t = "ChainInstance"
                   /\ \E c \in over : SameCanonical(c, py_str(cited)))
                  => call.ret.overrule.t = "OverruleRecord"

\* The builder resolved no instance for an edge whose cited citation is in
\* the SCDB table in the other spelling.
C31_Witness ==
    \E i \in BuildCalls :
        /\ api_log[i].scdb = << [ usCite           |-> JStr(Cite347),
                                  majority_opinion |-> JStr(Opinion) ] >>
        /\ api_log[i].row.cited_case_us_cite = JStr(Cite347Spaced)
        /\ api_log[i].ret = JNull

\* The builder resolves a citation exactly when the index holds the same
\* string.
C31_JoinsCompareRawStrings ==
    \A i \in BuildCalls :
        LET call   == api_log[i]
            cases  == CitationsOf(call.scdb, "usCite")
            cited  == call.row.cited_case_us_cite
        IN  call.ret.t = "ChainInstance"
            <=> (~no_citation(cited) /\ py_str(cited) \in cases)

\* ------------------------------------------------------------------------
\* C32
\* ------------------------------------------------------------------------

\* The text holds a citation that is in the canonical fake set of the step
\* or not in its canonical SCDB set.
Fabricated(self, text) ==
    \E k \in DOMAIN CitationShaped(text) :
        LET canonical == canonicalize_cite(CitationShaped(text)[k])
        IN  canonical \in self._canonical_fake
                \/ canonical \notin self._canonical_scdb

ChainRuns == { i \in ApiCalls : api_log[i].op = "execute" }

\* C32: when S7 runs in the executor after an S6 result with status OK
\* whose output holds a citation that is in the fake set or not in the
\* SCDB set, S7 is recorded with correct = false and the S6 result is
\* voided.
C32_FabricatedCitationVoidsS6 ==
    \A i \in ChainRuns :
        (/\ api_log[i].s6_result.status = STATUS_OK
         /\ api_log[i].ret.status = STATUS_OK
         /\ Fabricated(api_log[i].self, s6_text_of(api_log[i].s6_parsed)))
        => /\ ~api_log[i].ret.correct
           /\ api_log[i].step_results["s6"].voided

\* S7, configured with a fake set that holds the citation of the S6 output,
\* ran in the executor, was recorded correct, and S6 was not voided.
C32_Witness ==
    \E i \in ChainRuns :
        /\ api_log[i].self._canonical_fake = { canonicalize_cite(Cite410) }
        /\ api_log[i].self._canonical_scdb # {}
        /\ api_log[i].s6_parsed = ("issue" :> LongText) @@ ("rule" :> RuleRoe)
        /\ api_log[i].raw_response = RawEmptyObject
        /\ api_log[i].s6_result.status = STATUS_OK
        /\ api_log[i].ret.status = STATUS_OK
        /\ api_log[i].ret.correct
        /\ ~api_log[i].step_results["s6"].voided

\* ------------------------------------------------------------------------
\* C38
\* ------------------------------------------------------------------------

\* The object a default construction followed by set_verification_sets
\* leaves.
ConfiguredBySetter(fake_us_cites, scdb_us_cites) ==
    S7CitationIntegrity_set_verification_sets(
        S7CitationIntegrity_init(NoneArg, NoneArg),
        fake_us_cites, scdb_us_cites)

\* The constructions with both sets given.
Constructions ==
    { i \in ApiCalls : /\ api_log[i].op = "__init__"
                       /\ api_log[i].fake_us_cites.given
                       /\ api_log[i].scdb_us_cites.given }

\* C38: for every pair of sets, the constructor leaves the step with the
\* canonical sets that set_verification_sets leaves, and
\* execute_verification returns the same on both objects.
C38_ConstructorEquivalentToSetter ==
    \A i \in Constructions :
        LET other == ConfiguredBySetter(api_log[i].fake_us_cites.cites,
                                        api_log[i].scdb_us_cites.cites)
        IN  /\ api_log[i].self._canonical_fake = other._canonical_fake
            /\ api_log[i].self._canonical_scdb = other._canonical_scdb
            /\ \A j \in ApiCalls :
                   (j = i + 1 /\ api_log[j].op = "execute_verification")
                   => api_log[j].ret =
                          S7CitationIntegrity_execute_verification(
                              other, api_log[j].s6_text, api_log[j].eyecite)

\* An object constructed with an empty fake set and a SCDB set that holds
\* the citation of the text found the citation invalid; configured by
\* set_verification_sets it finds it valid.
C38_Witness ==
    \E i \in Constructions :
        /\ api_log[i].fake_us_cites = SetArg({})
        /\ api_log[i].scdb_us_cites = SetArg({ Cite347Spaced })
        /\ api_log[i].self._canonical_scdb = {}
        /\ i + 1 \in ApiCalls
        /\ api_log[i + 1].op = "execute_verification"
        /\ api_log[i + 1].s6_text = s6_text_of("issue" :> IssueBrown)
        /\ ~api_log[i + 1].eyecite.installed
        /\ ~api_log[i + 1].ret.all_valid
        /\ S7CitationIntegrity_execute_verification(
               ConfiguredBySetter({}, { Cite347Spaced }),
               api_log[i + 1].s6_text, api_log[i + 1].eyecite).all_valid

\* When both sets are not empty, the constructor and set_verification_sets
\* leave the same canonical sets.
C38_EquivalentForNonEmptySets ==
    \A i \in Constructions :
        (api_log[i].fake_us_cites.cites # {}
            /\ api_log[i].scdb_us_cites.cites # {})
        => LET other == ConfiguredBySetter(api_log[i].fake_us_cites.cites,
                                           api_log[i].scdb_us_cites.cites)
           IN  api_log[i].self = other

\* ------------------------------------------------------------------------
\* C33
\* ------------------------------------------------------------------------

\* C33: a step whose check_coverage is false and whose requirements are
\* not all OK is recorded SKIPPED_COVERAGE, without the diagnostic of a
\* missing dependency, and requires() is not called for it.
C33_CoverageIsCheckedBeforeDependencies ==
    \A k \in Processed :
        (~history[k].cov /\ ~(history[k].requires \subseteq OkBefore(k)))
        => /\ Recorded(k).status = STATUS_SKIPPED_COVERAGE
           /\ Recorded(k).model_errors = << >>
           /\ "requires" \notin CallsOf(k)
           /\ CallsOf(k) = { "check_coverage" }

\* A step without coverage that requires a step skipped before it was
\* recorded as skipped for coverage after the single call check_coverage.
C33_Witness ==
    \E k \in Processed :
        /\ k > 1
        /\ ~history[k].cov
        /\ history[k].requires = { history[k - 1].step_id }
        /\ history[k - 1].result.status # STATUS_OK
        /\ Recorded(k).status = STATUS_SKIPPED_COVERAGE
        /\ history[k].calls = << "check_coverage" >>

\* ------------------------------------------------------------------------
\* C35
\* ------------------------------------------------------------------------

\* The step of iteration k requires the id of the step of the earlier
\* iteration j, directly or through steps between the two.
RECURSIVE Depends(_, _)
Depends(k, j) ==
    /\ j < k
    /\ \/ history[j].step_id \in history[k].requires
       \/ \E m \in (j + 1)..(k - 1) :
              history[m].step_id \in history[k].requires /\ Depends(m, j)

\* C35: in an execution with pairwise distinct step ids, every result with
\* status OK in the Context belongs to a step whose check_coverage was
\* true and whose every required id had status OK at an earlier position;
\* and no step that depends on a skipped earlier step, directly or
\* transitively, is OK.
C35_OkMeansCoveredWithOkRequirements ==
    DistinctIds
    => /\ \A sid \in DOMAIN step_results :
              step_results[sid].status = STATUS_OK
              => \E k \in Processed :
                     /\ history[k].step_id = sid
                     /\ history[k].cov
                     /\ \A d \in history[k].requires :
                            \E j \in 1..(k - 1) :
                                /\ history[j].step_id = d
                                /\ history[j].result.status = STATUS_OK
       /\ \A k \in Processed, j \in Processed :
              (Depends(k, j) /\ history[j].result.status # STATUS_OK)
              => step_results[history[k].step_id].status # STATUS_OK

\* Three steps with distinct ids, the second requiring the first and the
\* third the second: the first was skipped for coverage and the two others,
\* both covered, for the dependency.
C35_Witness ==
    /\ DistinctIds
    /\ Len(history) = 3
    /\ history[2].requires = { history[1].step_id }
    /\ history[3].requires = { history[2].step_id }
    /\ ~history[1].cov /\ history[2].cov /\ history[3].cov
    /\ step_results[history[1].step_id].status = STATUS_SKIPPED_COVERAGE
    /\ step_results[history[2].step_id].status = STATUS_SKIPPED_DEPENDENCY
    /\ step_results[history[3].step_id].status = STATUS_SKIPPED_DEPENDENCY

\* ------------------------------------------------------------------------
\* C36
\* ------------------------------------------------------------------------

\* Iteration k comes after the gate step, requires the target id, and the
\* target has status OK in the Context.
RequiresOkTargetAfterGate(k) ==
    /\ \E j \in 1..(k - 1) : history[j].step_id = s7_step_id
    /\ s6_step_id \in history[k].requires
    /\ s6_step_id \in DOMAIN Before(k)
    /\ Before(k)[s6_step_id].status = STATUS_OK

\* C36 as stated: a step listed after the gate that requires the target id
\* is recorded OK whenever the target has status OK.
C36_OkTargetSufficesAfterGate ==
    \A k \in Processed :
        RequiresOkTargetAfterGate(k) => Recorded(k).status = STATUS_OK

\* C36: a step listed after the gate that requires the target id is
\* recorded OK when its check_coverage is true and the target and every
\* other id it requires have a result with status OK, voided or not.
C36_VoidedTargetStillSatisfies ==
    \A k \in Processed :
        (/\ RequiresOkTargetAfterGate(k)
         /\ history[k].cov
         /\ \A d \in history[k].requires :
                d \in DOMAIN Before(k) /\ Before(k)[d].status = STATUS_OK)
        => Recorded(k).status = STATUS_OK

\* A covered step after the gate that requires the target was recorded OK
\* although the gate had voided the target.
C36_Witness ==
    \E k \in Processed :
        /\ RequiresOkTargetAfterGate(k)
        /\ Before(k)[s6_step_id].voided
        /\ history[k].cov
        /\ history[k].step_id \notin { s6_step_id, s7_step_id }
        /\ Recorded(k).status = STATUS_OK

\* ------------------------------------------------------------------------
\* C34
\* ------------------------------------------------------------------------

\* The ids of the steps of the executor.
ChainIds == { step_id(steps[i]) : i \in 1..Len(steps) }

\* execute() has been left, by its return or by an exception.
ChainEnded == api_log # << >> /\ pc \in { "done", "raised" }

\* The result of every step is in the Context with the status the claim
\* names: on an instance with cited text and no citing text, S5:rag
\* SKIPPED_COVERAGE and every other step OK; on an instance without cited
\* text, every step SKIPPED_COVERAGE and no call of the backend.
ChainStatusesAsClaimed ==
    /\ (has_cited_text(ChainInstanceOf) /\ ~has_citing_text(ChainInstanceOf))
       => \A id \in ChainIds :
              /\ id \in DOMAIN step_results
              /\ step_results[id].status =
                     IF id = "s5:rag" THEN STATUS_SKIPPED_COVERAGE
                     ELSE STATUS_OK
    /\ ~has_cited_text(ChainInstanceOf)
       => /\ \A id \in ChainIds :
                 /\ id \in DOMAIN step_results
                 /\ step_results[id].status = STATUS_SKIPPED_COVERAGE
          /\ call_history = << >>

\* C34: for the concrete chain [S1, S2, S3, S4, S5:cb, S5:rag, S6, S7] run
\* in that order on an instance that has cited-case text but no
\* citing-case text, S5:rag is the only step recorded SKIPPED_COVERAGE and
\* every other step, S6 and the S7 gate included, is recorded OK; on an
\* instance without cited-case text every step is SKIPPED_COVERAGE and the
\* backend is never called.
C34_ConcreteChainStatuses == ChainEnded => ChainStatusesAsClaimed

\* The statuses are those of the claim in every run that execute() returns
\* from.
C34_StatusesWhenExecuteReturns ==
    (api_log # << >> /\ pc = "done") => ChainStatusesAsClaimed

\* On an instance with cited text and no citing text the backend was called
\* for S1 and parse() raised: execute() was left with an empty Context.
C34_Witness ==
    /\ api_log # << >>
    /\ pc = "raised"
    /\ has_cited_text(ChainInstanceOf)
    /\ ~has_citing_text(ChainInstanceOf)
    /\ call_history = << "s1" >>
    /\ step_results = << >>

\* Both halves of the claim in runs that return: S5:rag alone skipped for
\* coverage with seven calls of the backend.
C34_ReturnedWitness ==
    /\ api_log # << >>
    /\ pc = "done"
    /\ has_cited_text(ChainInstanceOf)
    /\ ~has_citing_text(ChainInstanceOf)
    /\ step_results["s5:rag"].status = STATUS_SKIPPED_COVERAGE
    /\ step_results["s7"].status = STATUS_OK
    /\ Len(call_history) = 7

\* ------------------------------------------------------------------------
\* C37
\* ------------------------------------------------------------------------

\* The volume of an extracted citation: its leading digits.
VolumeOf(cite) == SubSeq(cite, 1, run_length(cite, 1, DigitChars))

\* The page of an extracted citation: its trailing digits.
PageOf(cite) ==
    LET n == CHOOSE n \in 0..Len(cite) :
                 /\ \A j \in (Len(cite) - n + 1)..Len(cite) :
                        cite[j] \in DigitChars
                 /\ n = Len(cite) \/ cite[Len(cite) - n] \notin DigitChars
    IN  SubSeq(cite, Len(cite) - n + 1, Len(cite))

\* "v_us_p" for the volume and the page of the citation.
KeyOf(cite) == VolumeOf(cite) \o << "_", "u", "s", "_" >> \o PageOf(cite)

\* The calls of extract_citations that took the regex path.
RegexExtractions ==
    { i \in ApiCalls : /\ api_log[i].op = "extract_citations"
                       /\ ~api_log[i].eyecite.installed }

\* The extracted citation spells the reporter without a blank between its
\* letters, or as "U. S." or "u. s.".
HandledSpelling(cite) ==
    \/ ~contains(cite, << ".", " ", "S" >>) /\ ~contains(cite, << ".", " ", "s" >>)
       /\ ~contains(cite, << "U", " " >>) /\ ~contains(cite, << "u", " " >>)
    \/ contains(cite, << "U", ".", " ", "S", "." >>)
    \/ contains(cite, << "u", ".", " ", "s", "." >>)

\* C37: extraction and canonicalization agree on the reporter token: every
\* citation that extract_citations accepts for volume v and page p,
\* whatever the spacing, periods or letter case of its reporter token,
\* canonicalizes to "v_us_p", so the spelling variants of one citation in
\* a text are returned as a single entry, verified against the same key.
C37_ExtractionAgreesWithCanonicalization ==
    \A i \in RegexExtractions :
        LET ret == api_log[i].ret
        IN  /\ \A k \in DOMAIN ret : canonicalize_cite(ret[k]) = KeyOf(ret[k])
            /\ \A k, l \in DOMAIN ret :
                   (/\ VolumeOf(ret[k]) = VolumeOf(ret[l])
                    /\ PageOf(ret[k]) = PageOf(ret[l])) => k = l

\* The agreement holds for the spellings that canonicalize_cite has a rule
\* for: the reporter written without a blank, "U. S." and "u. s.".
C37_AgreementOnHandledSpellings ==
    \A i \in RegexExtractions :
        LET ret == api_log[i].ret
        IN  /\ \A k \in DOMAIN ret :
                   HandledSpelling(ret[k])
                   => canonicalize_cite(ret[k]) = KeyOf(ret[k])
            /\ \A k, l \in DOMAIN ret :
                   (/\ HandledSpelling(ret[k]) /\ HandledSpelling(ret[l])
                    /\ KeyOf(ret[k]) = KeyOf(ret[l])) => k = l

\* "1 U.S. 2; 1 u. S. 2" was extracted as two entries, the second with the
\* canonical form "1_u_s_2".
C37_Witness ==
    \E i \in RegexExtractions :
        /\ api_log[i].text =
               ReporterCitation(<< "U", ".", "S", "." >>) \o << ";", " " >>
               \o ReporterCitation(<< "u", ".", " ", "S", "." >>)
        /\ Len(api_log[i].ret) = 2
        /\ canonicalize_cite(api_log[i].ret[1]) = KeyOf(api_log[i].ret[1])
        /\ canonicalize_cite(api_log[i].ret[2])
               = << "1", "_", "u", "_", "s", "_", "2" >>

\* Two handled spellings of one citation in a text were returned as one
\* entry with the canonical form "1_us_2".
C37_HandledWitness ==
    \E i \in RegexExtractions :
        /\ api_log[i].text =
               ReporterCitation(<< "u", "s" >>) \o << ";", " " >>
               \o ReporterCitation(<< "U", ".", " ", "S", "." >>)
        /\ Len(api_log[i].ret) = 1
        /\ canonicalize_cite(api_log[i].ret[1])
               = << "1", "_", "u", "s", "_", "2" >>

====
